---- MODULE Spec2Model ----
(***************************************************************************)
(* A model of volk's HTTP message layer (package internal/http): the query *)
(* and fragment extractors, the request-target decomposer, the header,     *)
(* request and response parsers and the header and response serializers.   *)
(* A Go string is a sequence of one-character strings; indices are Go's    *)
(* 0-based byte offsets, -1 meaning "not found".                           *)
(***************************************************************************)
EXTENDS Integers, Sequences, FiniteSets, TLC

VARIABLES
    target,   \* the request-target handed to the extractor functions
    call,     \* the last extractor call made on it and what it returned
    raw,      \* the raw request text handed to parseRequest
    results,  \* what each parseRequest call on raw returned, in call order
    line,     \* the header line handed to parseHeader
    hdr,      \* the Header value handed to Header.String
    hcall,    \* the last header call made and what it returned
    wire,     \* the raw response text handed to parseResponse
    resp,     \* the Response value handed to Response.String
    rcall,    \* the last response call made and what it returned
    rq,       \* the Request that ValidatePath and Response are called on
    dpc,      \* where the dispatch of rq stands: the function about to run
    trace,    \* the calls the dispatch of rq has made, in order
    out,      \* what ValidatePath last returned and what Response returned
    DefaultFileServer,  \* the package variable: nil or the installed file server
    mainpc,   \* where runServer stands
    conns,    \* the accepted connections and the state of their handlers
    procs     \* goroutines that call the parsers side by side

extractorVars == <<target, call>>
requestVars == <<raw, results>>
headerVars == <<line, hdr, hcall>>
responseVars == <<wire, resp, rcall>>
dispatchVars == <<rq, dpc, trace, out>>
serverVars == <<mainpc, conns>>
programVars == <<dispatchVars, DefaultFileServer, serverVars, procs>>

parserVars == <<extractorVars, requestVars, headerVars, responseVars>>
notProcs == <<dispatchVars, DefaultFileServer, serverVars, parserVars>>
notServer == <<dispatchVars, procs, parserVars>>
vars == <<extractorVars, requestVars, headerVars, responseVars, programVars>>

----------------------------------------------------------------------------
(* Bounds of the model.                                                    *)

\* longest request-target enumerated exhaustively over TargetChars
MaxTargetLen == 4
\* longest request-target enumerated exhaustively inside a raw request
MaxReqTargetLen == 4
\* number of times parseRequest is called on one raw text
MaxCalls == 2
\* longest header line enumerated exhaustively over HeaderChars
MaxHeaderLen == 4
\* longest Header name and value enumerated exhaustively
MaxNameLen == 2
MaxValueLen == 3
\* most tokens of an enumerated request or response start line
MaxTokens == 4
\* the longest path of a Request literal given to the dispatch
MaxPathLen == 3
\* the goroutines that call a parser concurrently
MaxGoroutines == 2
\* the connections the server accepts
MaxConns == 1

----------------------------------------------------------------------------
(* Go's strings package, on sequences of characters.                       *)

\* strings.Index(s, c) for a one-character c
Index(s, c) ==
    IF \E i \in 1..Len(s) : s[i] = c
    THEN (CHOOSE i \in 1..Len(s) : s[i] = c /\ \A j \in 1..(i - 1) : s[j] # c) - 1
    ELSE -1

\* the slice expression s[i:j]
Slice(s, i, j) == SubSeq(s, i + 1, j)

\* strings.Contains(s, c) for a one-character c
Contains(s, c) == \E i \in 1..Len(s) : s[i] = c

\* strings.HasPrefix(s, p)
HasPrefix(s, p) == Len(s) >= Len(p) /\ SubSeq(s, 1, Len(p)) = p

\* strings.Index(s, sep) for a non-empty separator string
IndexStr(s, sep) ==
    LET hits == {i \in 1..(Len(s) - Len(sep) + 1) : SubSeq(s, i, i + Len(sep) - 1) = sep}
    IN  IF hits = {} THEN -1 ELSE (CHOOSE i \in hits : \A j \in hits : i <= j) - 1

\* strings.Split(s, sep) and the sequence strings.SplitSeq(s, sep) yields
RECURSIVE Split(_, _)
Split(s, sep) ==
    LET i == IndexStr(s, sep)
    IN  IF i = -1 THEN <<s>>
        ELSE <<Slice(s, 0, i)>> \o Split(Slice(s, i + Len(sep), Len(s)), sep)

\* strings.SplitN(s, sep, 2)
SplitN2(s, sep) ==
    LET i == IndexStr(s, sep)
    IN  IF i = -1 THEN <<s>>
        ELSE <<Slice(s, 0, i), Slice(s, i + Len(sep), Len(s))>>

\* strings.Join(parts, sep)
RECURSIVE Join(_, _)
Join(parts, sep) ==
    IF parts = <<>> THEN <<>>
    ELSE IF Len(parts) = 1 THEN parts[1]
    ELSE parts[1] \o sep \o Join(Tail(parts), sep)

\* strings.Trim(s, cutset) for a set of characters
Trim(s, cutset) ==
    LET keep == {i \in 1..Len(s) : s[i] \notin cutset}
    IN  IF keep = {} THEN <<>>
        ELSE SubSeq(s, CHOOSE i \in keep : \A j \in keep : i <= j,
                       CHOOSE i \in keep : \A j \in keep : i >= j)

\* the characters strings.TrimSpace removes (vertical tab, U+0085 and U+00A0, which it
\* removes too, are in no input of the model)
WhiteSpace == {" ", "\t", "\n", "\f", "\r"}

\* strings.TrimSpace(s)
TrimSpace(s) == Trim(s, WhiteSpace)

----------------------------------------------------------------------------
(* Errors: the package's sentinel error values, nil included.              *)

nil == "nil"
ErrQueryNotFound == "ErrQueryNotFound"
ErrFragmentBeforeQuery == "ErrFragmentBeforeQuery"
ErrQueryEmpty == "ErrQueryEmpty"
ErrFragmentNotFound == "ErrFragmentNotFound"
ErrFragmentEmpty == "ErrFragmentEmpty"
ErrFragmentNoHashPrefix == "ErrFragmentNoHashPrefix"
ErrFragmentWhitespace == "ErrFragmentWhitespace"

----------------------------------------------------------------------------
(* Query extraction and parsing.                                           *)

\* a map[string][]string with no entries (also what ranging over a nil map sees)
EmptyParams == [k \in {} |-> <<>>]

\* findQuery with the slice started one character late, past the "?"
findQueryDropsMark(requestTarget) ==
    LET queryIdx == Index(requestTarget, "?")
        fragmentIdx == Index(requestTarget, "#")
        query == IF fragmentIdx # -1
                 THEN Slice(requestTarget, queryIdx + 1, fragmentIdx)
                 ELSE Slice(requestTarget, queryIdx + 1, Len(requestTarget))
    IN  IF queryIdx = -1
        THEN [str |-> <<>>, idx |-> -1, err |-> ErrQueryNotFound]
        ELSE IF fragmentIdx # -1 /\ fragmentIdx < queryIdx
        THEN [str |-> <<>>, idx |-> -1, err |-> ErrFragmentBeforeQuery]
        ELSE IF query = <<>>
        THEN [str |-> <<>>, idx |-> -1, err |-> ErrQueryEmpty]
        ELSE [str |-> query, idx |-> queryIdx, err |-> nil]

\* findQuery: (query, queryIndex, error)
findQuery(requestTarget) ==
    LET queryIdx == Index(requestTarget, "?")
        fragmentIdx == Index(requestTarget, "#")
        isThereAFragment == fragmentIdx # -1
        query == IF isThereAFragment
                 THEN Slice(requestTarget, queryIdx, fragmentIdx)
                 ELSE Slice(requestTarget, queryIdx, Len(requestTarget))
    IN  IF queryIdx = -1
        THEN [str |-> <<>>, idx |-> -1, err |-> ErrQueryNotFound]
        ELSE IF isThereAFragment /\ fragmentIdx < queryIdx
        THEN [str |-> <<>>, idx |-> -1, err |-> ErrFragmentBeforeQuery]
        ELSE IF query = <<>>
        THEN [str |-> <<>>, idx |-> -1, err |-> ErrQueryEmpty]
        ELSE [str |-> query, idx |-> queryIdx, err |-> nil]

\* the loop body of parseQuery storing the value in place of appending it
appendParamOverwrites(params, param) ==
    LET keyValue == SplitN2(param, <<"=">>)
        key == keyValue[1]
        value == IF Len(keyValue) = 1 THEN <<>> ELSE keyValue[2]
    IN  [k \in DOMAIN params \cup {key} |-> IF k = key THEN <<value>> ELSE params[k]]

\* the loop body of parseQuery: params[key] = append(params[key], value)
appendParam(params, param) ==
    LET keyValue == SplitN2(param, <<"=">>)
        key == keyValue[1]
        value == IF Len(keyValue) = 1 THEN <<>> ELSE keyValue[2]
        old == IF key \in DOMAIN params THEN params[key] ELSE <<>>
    IN  [k \in DOMAIN params \cup {key} |->
            IF k = key THEN Append(old, value) ELSE params[k]]

\* the loop of parseQuery without its skip of empty segments
RECURSIVE collectParamsKeepsEmpty(_, _)
collectParamsKeepsEmpty(segments, params) ==
    IF segments = <<>> THEN params
    ELSE collectParamsKeepsEmpty(Tail(segments), appendParam(params, Head(segments)))

\* the loop of parseQuery over the "&"-separated segments
RECURSIVE collectParams(_, _)
collectParams(segments, params) ==
    IF segments = <<>> THEN params
    ELSE IF Head(segments) = <<>> THEN collectParams(Tail(segments), params)
    ELSE collectParams(Tail(segments), appendParam(params, Head(segments)))

\* parseQuery: (Query, error)
parseQuery(query) ==
    LET q == IF Len(query) > 0 /\ query[1] = "?" THEN Tail(query) ELSE query
    IN  IF q = <<>>
        THEN [params |-> EmptyParams, err |-> ErrQueryEmpty]
        ELSE [params |-> collectParams(Split(q, <<"&">>), EmptyParams), err |-> nil]

\* FindAndParseQuery returning parseQuery's error instead of dropping it
FindAndParseQueryPropagates(requestTarget) ==
    LET found == findQuery(requestTarget)
        parsed == parseQuery(found.str)
    IN  IF found.err # nil
        THEN IF found.err = ErrQueryNotFound
             THEN [params |-> EmptyParams, idx |-> -1, err |-> nil]
             ELSE [params |-> EmptyParams, idx |-> -1, err |-> found.err]
        ELSE [params |-> parsed.params, idx |-> found.idx, err |-> parsed.err]

\* FindAndParseQuery: (Query, index, error); parseQuery's error is dropped
FindAndParseQuery(requestTarget) ==
    LET found == findQuery(requestTarget)
    IN  IF found.err # nil
        THEN IF found.err = ErrQueryNotFound
             THEN [params |-> EmptyParams, idx |-> -1, err |-> nil]
             ELSE [params |-> EmptyParams, idx |-> -1, err |-> found.err]
        ELSE [params |-> parseQuery(found.str).params, idx |-> found.idx, err |-> nil]

----------------------------------------------------------------------------
(* Fragment extraction and parsing.                                        *)

\* findFragment: (fragment, fragmentIndex, error)
findFragment(requestTarget) ==
    LET fragmentIdx == Index(requestTarget, "#")
    IN  IF fragmentIdx = -1
        THEN [str |-> <<>>, idx |-> -1, err |-> ErrFragmentNotFound]
        ELSE [str |-> Slice(requestTarget, fragmentIdx, Len(requestTarget)),
              idx |-> fragmentIdx, err |-> nil]

\* parseFragment looking for tab, CR and LF before it looks for the "#" prefix
parseFragmentWhitespaceFirst(fragment) ==
    IF fragment = <<>> THEN [str |-> <<>>, err |-> ErrFragmentEmpty]
    ELSE IF Contains(fragment, "\t") \/ Contains(fragment, "\r") \/ Contains(fragment, "\n")
    THEN [str |-> <<>>, err |-> ErrFragmentWhitespace]
    ELSE IF ~HasPrefix(fragment, <<"#">>)
    THEN [str |-> <<>>, err |-> ErrFragmentNoHashPrefix]
    ELSE [str |-> fragment, err |-> nil]

\* parseFragment: (fragment, error)
parseFragment(fragment) ==
    IF fragment = <<>> THEN [str |-> <<>>, err |-> ErrFragmentEmpty]
    ELSE IF ~HasPrefix(fragment, <<"#">>)
    THEN [str |-> <<>>, err |-> ErrFragmentNoHashPrefix]
    ELSE IF Contains(fragment, "\t") \/ Contains(fragment, "\r") \/ Contains(fragment, "\n")
    THEN [str |-> <<>>, err |-> ErrFragmentWhitespace]
    ELSE [str |-> fragment, err |-> nil]

\* FindAndParseFragment treating a target without "#" as FindAndParseQuery treats one
\* without "?"
FindAndParseFragmentTolerant(requestTarget) ==
    LET found == findFragment(requestTarget)
        parsed == parseFragment(found.str)
    IN  IF found.err # nil
        THEN [str |-> <<>>, idx |-> -1, err |-> nil]
        ELSE [str |-> parsed.str, idx |-> found.idx, err |-> parsed.err]

\* FindAndParseFragment: (fragment, fragmentIndex, error)
FindAndParseFragment(requestTarget) ==
    LET found == findFragment(requestTarget)
        parsed == parseFragment(found.str)
    IN  IF found.err # nil
        THEN [str |-> <<>>, idx |-> -1, err |-> found.err]
        ELSE [str |-> parsed.str, idx |-> found.idx, err |-> parsed.err]

----------------------------------------------------------------------------
(* Request-target decomposition.                                           *)

\* parseRequestTarget: (path, error)
parseRequestTarget(requestTarget) ==
    LET f == FindAndParseFragment(requestTarget)
        q == FindAndParseQuery(requestTarget)
        path0 == IF f.str # <<>> THEN Slice(requestTarget, 0, f.idx) ELSE requestTarget
        path == IF Cardinality(DOMAIN q.params) > 0 THEN Slice(path0, 0, q.idx) ELSE path0
    IN  IF f.err # nil /\ f.err # ErrFragmentNotFound
        THEN [path |-> <<>>, err |-> f.err]
        ELSE IF q.err # nil /\ q.err # ErrQueryNotFound /\ q.err # ErrQueryEmpty
        THEN [path |-> <<>>, err |-> q.err]
        ELSE [path |-> path, err |-> nil]

----------------------------------------------------------------------------
(* Header parsing.                                                         *)

\* the characters of tokenPattern's class, RFC 7230 tchar (all but the backquote,
\* which no input of the model contains)
TokenChars ==
    {"!", "#", "$", "%", "&", "'", "*", "+", ".", "^", "_", "|", "~", "0", "1",
     "2", "3", "4", "5", "6", "7", "8", "9", "a", "b", "c", "d", "e", "f", "g", "h",
     "i", "j", "k", "l", "m", "n", "o", "p", "q", "r", "s", "t", "u", "v", "w", "x",
     "y", "z", "A", "B", "C", "D", "E", "F", "G", "H", "I", "J", "K", "L", "M", "N",
     "O", "P", "Q", "R", "S", "T", "U", "V", "W", "X", "Y", "Z", "-"}

\* tokenPattern.MatchString(name): one or more token characters, nothing else
MatchesToken(name) == Len(name) >= 1 /\ \A i \in 1..Len(name) : name[i] \in TokenChars

\* a Header{} value
NoHeader == [Name |-> <<>>, Value |-> <<>>]

\* Header.String()
HeaderSeparator == <<":", " ">>
HeaderString(h) == h.Name \o HeaderSeparator \o h.Value

\* parseHeader cutting the line at its last colon
parseHeaderLastColon(header) ==
    LET colons == {i \in 0..(Len(header) - 1) : header[i + 1] = ":"}
        lastColonIdx == IF colons = {} THEN -1
                        ELSE CHOOSE i \in colons : \A j \in colons : j <= i
        name == TrimSpace(Slice(header, 0, lastColonIdx))
        value == TrimSpace(Slice(header, lastColonIdx + 1, Len(header)))
    IN  IF lastColonIdx = -1
        THEN [header |-> NoHeader, err |-> "invalid header format: missing colon"]
        ELSE IF name = <<>>
        THEN [header |-> NoHeader, err |-> "invalid header format: empty name"]
        ELSE IF ~MatchesToken(name)
        THEN [header |-> NoHeader, err |-> "invalid header format: invalid characters in name"]
        ELSE [header |-> [Name |-> name, Value |-> value], err |-> nil]

\* parseHeader keeping the whitespace around the value
parseHeaderKeepsValueSpace(header) ==
    LET firstColonIdx == Index(header, ":")
        name == TrimSpace(Slice(header, 0, firstColonIdx))
        value == Slice(header, firstColonIdx + 1, Len(header))
    IN  IF firstColonIdx = -1
        THEN [header |-> NoHeader, err |-> "invalid header format: missing colon"]
        ELSE IF name = <<>>
        THEN [header |-> NoHeader, err |-> "invalid header format: empty name"]
        ELSE IF ~MatchesToken(name)
        THEN [header |-> NoHeader, err |-> "invalid header format: invalid characters in name"]
        ELSE [header |-> [Name |-> name, Value |-> value], err |-> nil]

\* parseHeader: (Header, error)
parseHeader(header) ==
    LET firstColonIdx == Index(header, ":")
        name == TrimSpace(Slice(header, 0, firstColonIdx))
        value == TrimSpace(Slice(header, firstColonIdx + 1, Len(header)))
    IN  IF firstColonIdx = -1
        THEN [header |-> NoHeader, err |-> "invalid header format: missing colon"]
        ELSE IF name = <<>>
        THEN [header |-> NoHeader, err |-> "invalid header format: empty name"]
        ELSE IF ~MatchesToken(name)
        THEN [header |-> NoHeader, err |-> "invalid header format: invalid characters in name"]
        ELSE [header |-> [Name |-> name, Value |-> value], err |-> nil]

\* the header loop of parseRequest: empty lines are skipped, the first error aborts
RECURSIVE parseHeaderLines(_, _)
parseHeaderLines(headers_strings, headers) ==
    IF headers_strings = <<>> THEN [headers |-> headers, err |-> nil]
    ELSE IF Head(headers_strings) = <<>> THEN parseHeaderLines(Tail(headers_strings), headers)
    ELSE LET h == parseHeader(Head(headers_strings))
         IN  IF h.err # nil THEN [headers |-> <<>>, err |-> h.err]
             ELSE parseHeaderLines(Tail(headers_strings), Append(headers, h.header))

----------------------------------------------------------------------------
(* Request parsing.                                                        *)

CRLF == <<"\r", "\n">>
HeaderBodySeparator == CRLF \o CRLF

\* RequestTarget.String()
RequestTargetString(rt) == rt.Path \o rt.Query \o rt.Fragment

\* a Request{} value, returned beside every error
NoRequest ==
    [StartLine |-> [Method |-> <<>>,
                    RequestTarget |-> [Path |-> <<>>, Query |-> <<>>, Fragment |-> <<>>],
                    Protocol |-> <<>>],
     Headers |-> <<>>, Body |-> <<>>]

\* what parseRequest returns on failure: err is the message, cause the wrapped error
Failure(msg, cause) == [req |-> NoRequest, err |-> msg, cause |-> cause]

\* the orders in which a range statement may visit the keys of a map: Go fixes none
RangeOrders(params) ==
    LET n == Cardinality(DOMAIN params)
    IN  {o \in [1..n -> DOMAIN params] : \A i, j \in 1..n : i # j => o[i] # o[j]}

\* the inner loop of the query closure: k for an empty value, k=v otherwise
RECURSIVE valueParts(_, _)
valueParts(k, vs) ==
    IF vs = <<>> THEN <<>>
    ELSE <<IF Head(vs) = <<>> THEN k ELSE k \o <<"=">> \o Head(vs)>> \o valueParts(k, Tail(vs))

\* the query closure of parseRequest, the keys visited in the given order
RECURSIVE queryParts(_, _)
queryParts(params, order) ==
    IF order = <<>> THEN <<>>
    ELSE valueParts(Head(order), params[Head(order)]) \o queryParts(params, Tail(order))

\* the separator test of parseRequest letting through texts with more than one separator
missingSeparatorOnlyIfNone(request_split) == Len(request_split) < 2

\* the separator test of parseRequest: len(request_split) != 2
missingSeparator(request_split) == Len(request_split) # 2

\* the start-line test of parseRequest rejecting also every method but GET
invalidStartlineOrMethod(startline_split) ==
    Len(startline_split) # 3 \/ startline_split[1] # <<"G", "E", "T">>

\* the start-line test of parseRequest: len(startline_split) != 3
invalidStartline(startline_split) == Len(startline_split) # 3

\* parseRequest: the set of (Request, error) pairs a call may return
parseRequest(request) ==
    LET trimmed == Trim(request, {" "})
        request_split == Split(trimmed, HeaderBodySeparator)
        startline_headers == request_split[1]
        body == request_split[2]
        startline_headers_split == Split(startline_headers, CRLF)
        startline == startline_headers_split[1]
        headers_strings == Tail(startline_headers_split)
        startline_split == Split(startline, <<" ">>)
        method == startline_split[1]
        request_target_str == startline_split[2]
        protocol == startline_split[3]
        p == parseRequestTarget(request_target_str)
        q == FindAndParseQuery(request_target_str)
        f == FindAndParseFragment(request_target_str)
        hs == parseHeaderLines(headers_strings, <<>>)
    IN  IF missingSeparator(request_split)
        THEN {Failure("invalid request format: missing separator", nil)}
        ELSE IF Len(startline_headers_split) < 1
        THEN {Failure("invalid request format: no startline", nil)}
        ELSE IF invalidStartline(startline_split)
        THEN {Failure("invalid startline format", nil)}
        ELSE IF p.err # nil
        THEN {Failure("invalid request target", p.err)}
        ELSE IF hs.err # nil
        THEN {Failure("invalid header", hs.err)}
        ELSE {[req |->
                 [StartLine |->
                    [Method |-> method,
                     RequestTarget |->
                        [Path |-> p.path,
                         Query |-> IF q.err = nil
                                   THEN <<"?">> \o Join(queryParts(q.params, order), <<"&">>)
                                   ELSE <<>>,
                         Fragment |-> IF f.err = nil THEN f.str ELSE <<>>],
                     Protocol |-> protocol],
                  Headers |-> hs.headers,
                  Body |-> body],
               err |-> nil, cause |-> nil] : order \in RangeOrders(q.params)}

----------------------------------------------------------------------------
(* Response serialization and parsing.                                     *)

DigitChars == <<"0", "1", "2", "3", "4", "5", "6", "7", "8", "9">>
IsDigit(c) == \E d \in 1..10 : DigitChars[d] = c
DigitValue(c) == (CHOOSE d \in 1..10 : DigitChars[d] = c) - 1

\* the value of a sequence of decimal digits
RECURSIVE DecimalValue(_)
DecimalValue(digits) ==
    IF digits = <<>> THEN 0
    ELSE 10 * DecimalValue(SubSeq(digits, 1, Len(digits) - 1)) + DigitValue(digits[Len(digits)])

\* strconv.Atoi(s): (int, error); an optional sign, then one or more decimal digits
\* (the range error of numerals beyond the int range is met by no input of the model,
\* whose numerals have a few digits)
Atoi(s) ==
    LET signed == s # <<>> /\ s[1] \in {"+", "-"}
        digits == IF signed THEN Tail(s) ELSE s
    IN  IF digits = <<>> \/ \E i \in 1..Len(digits) : ~IsDigit(digits[i])
        THEN [n |-> 0, err |-> "strconv.Atoi: invalid syntax"]
        ELSE [n |-> IF s[1] = "-" THEN 0 - DecimalValue(digits) ELSE DecimalValue(digits),
              err |-> nil]

\* the %d verb of fmt.Sprintf
RECURSIVE FormatNat(_)
FormatNat(n) ==
    IF n < 10 THEN <<DigitChars[n + 1]>>
    ELSE FormatNat(n \div 10) \o <<DigitChars[(n % 10) + 1]>>

FormatInt(n) == IF n < 0 THEN <<"-">> \o FormatNat(0 - n) ELSE FormatNat(n)

\* the header loop of Response.String: "%s: %s\r\n" for each header
RECURSIVE HeaderLinesText(_)
HeaderLinesText(headers) ==
    IF headers = <<>> THEN <<>>
    ELSE Head(headers).Name \o <<":", " ">> \o Head(headers).Value \o CRLF
            \o HeaderLinesText(Tail(headers))

\* Response.String() leaving out the empty line between the headers and the body
ResponseStringNoBlankLine(r) ==
    r.StartLine.Protocol \o <<" ">> \o FormatInt(r.StartLine.StatusCode) \o <<" ">>
        \o r.StartLine.StatusText \o CRLF
        \o HeaderLinesText(r.Headers)
        \o r.Body

\* Response.String()
ResponseString(r) ==
    r.StartLine.Protocol \o <<" ">> \o FormatInt(r.StartLine.StatusCode) \o <<" ">>
        \o r.StartLine.StatusText \o CRLF
        \o HeaderLinesText(r.Headers)
        \o CRLF
        \o r.Body

\* the status text of parseResponse taken from the third token alone
status_textThirdTokenOnly(startline_split) == startline_split[3]

\* the status text of parseResponse: strings.Join(startline_split[2:], " ")
status_text(startline_split) ==
    Join(SubSeq(startline_split, 3, Len(startline_split)), <<" ">>)

\* a Response{} value, returned beside every error
NoResponse ==
    [StartLine |-> [Protocol |-> <<>>, StatusCode |-> 0, StatusText |-> <<>>],
     Headers |-> <<>>, Body |-> <<>>]

\* what parseResponse returns on failure: err is the message, cause the wrapped error
ResponseFailure(msg, cause) == [resp |-> NoResponse, err |-> msg, cause |-> cause]

\* parseResponse: (Response, error)
parseResponse(response) ==
    LET trimmed == Trim(response, {" "})
        response_split == Split(trimmed, HeaderBodySeparator)
        startline_headers == response_split[1]
        body == response_split[2]
        startline_headers_split == Split(startline_headers, CRLF)
        startline == startline_headers_split[1]
        headers_strings == Tail(startline_headers_split)
        startline_split == Split(startline, <<" ">>)
        protocol == startline_split[1]
        status_code == Atoi(startline_split[2])
        hs == parseHeaderLines(headers_strings, <<>>)
    IN  IF Len(response_split) # 2
        THEN ResponseFailure("invalid response format: missing separator", nil)
        ELSE IF Len(startline_headers_split) < 1
        THEN ResponseFailure("invalid response format: no startline", nil)
        ELSE IF Len(startline_split) < 3
        THEN ResponseFailure("invalid startline format", nil)
        ELSE IF status_code.err # nil
        THEN ResponseFailure("invalid status code", status_code.err)
        ELSE IF hs.err # nil
        THEN ResponseFailure("invalid header", hs.err)
        ELSE [resp |->
                [StartLine |->
                    [Protocol |-> protocol,
                     StatusCode |-> status_code.n,
                     StatusText |-> status_text(startline_split)],
                 Headers |-> hs.headers,
                 Body |-> body],
              err |-> nil, cause |-> nil]

----------------------------------------------------------------------------
(* Inputs.                                                                 *)

\* every string over chars of length at most n
Strings(chars, n) == UNION {[1..k -> chars] : k \in 0..n}

\* the characters request-targets are enumerated over
TargetChars == {"/", "a", "?", "#", "=", "&", " ", "\t"}

\* request-targets of the package's tests (TestFindQuery, TestFindFragment, TestParseQuery)
PageQueryTrailingSpace == <<"/", "p", "a", "g", "e", "?", "n", "a", "m", "e", "=", "v", "a", "l", "u", "e", " ">>
PageQuerySpacesFragment == <<"/", "p", "a", "g", "e", "?", "n", "a", "m", "e", " ", "w", "i", "t", "h", " ", "s", "p", "a", "c", "e", "=", "v", "a", "l", "u", "e", " ", "#", " ", "f", "d", "s", "f", "d", "s">>
PageFragmentSpace == <<"/", "p", "a", "g", "e", "#", " ">>
PageEmptyQuery == <<"/", "p", "a", "g", "e", "?">>
PagePlain == <<"/", "p", "a", "g", "e">>
PageEncodedKey == <<"/", "p", "a", "g", "e", "?", "n", "a", "m", "e", "%", "2", "0", "w", "i", "t", "h", "%", "2", "0", "s", "p", "a", "c", "e", "=", "v", "a", "l", "u", "e">>
PageEncodedValue == <<"/", "p", "a", "g", "e", "?", "n", "a", "m", "e", "=", "v", "a", "l", "u", "e", "%", "2", "0", "w", "i", "t", "h", "%", "2", "0", "s", "p", "a", "c", "e", "?">>

\* fragments of TestParseFragment
FragmentLineFeed == <<"#", "l", "i", "n", "e", "\n", "b", "r", "e", "a", "k">>
FragmentCarriageReturn == <<"#", "l", "i", "n", "e", "\r", "b", "r", "e", "a", "k">>
FragmentTab == <<"#", "l", "i", "n", "e", "\t", "b", "r", "e", "a", "k">>
FragmentSpace == <<"#", " ", "s", "e", "c", "t", "i", "o", "n", "1">>
FragmentDoubleHash == <<"#", "#", "d", "o", "u", "b", "l", "e", "H", "a", "s", "h">>
FragmentNoHash == <<"s", "e", "c", "t", "i", "o", "n", "1">>

TestTargets ==
    {PageQueryTrailingSpace, PageQuerySpacesFragment, PageFragmentSpace, PageEmptyQuery,
     PagePlain, PageEncodedKey, PageEncodedValue, FragmentLineFeed, FragmentCarriageReturn,
     FragmentTab, FragmentSpace, FragmentDoubleHash, FragmentNoHash}

Targets == Strings(TargetChars, MaxTargetLen) \cup TestTargets

----------------------------------------------------------------------------
(* The values of the variables before any call, and of those a              *)
(* specification leaves alone.                                             *)

NoCall ==
    [fn |-> "none", arg |-> <<>>, str |-> <<>>, idx |-> -1, params |-> EmptyParams,
     err |-> nil]

NoHeaderCall == [fn |-> "none", arg |-> <<>>, text |-> <<>>, header |-> NoHeader, err |-> nil]

NoResponseCall ==
    [fn |-> "none", arg |-> <<>>, text |-> <<>>, resp |-> NoResponse, err |-> nil,
     cause |-> nil]

ExtractorsIdle == target = <<>> /\ call = NoCall
RequestsIdle == raw = <<>> /\ results = <<>>
HeadersIdle == line = <<>> /\ hdr = NoHeader /\ hcall = NoHeaderCall
ResponsesIdle == wire = <<>> /\ resp = NoResponse /\ rcall = NoResponseCall

\* what the dispatch has returned before any call
NoOut == [err |-> nil, resp |-> NoResponse, panic |-> FALSE]

DispatchIdle == rq = NoRequest /\ dpc = "idle" /\ trace = <<>> /\ out = NoOut
ServerIdle == mainpc = "idle" /\ conns = <<>>
ProgramIdle == DispatchIdle /\ DefaultFileServer = nil /\ ServerIdle /\ procs = <<>>
ParsersIdle == ExtractorsIdle /\ RequestsIdle /\ HeadersIdle /\ ResponsesIdle

----------------------------------------------------------------------------
(* The extractors, called on one request-target.                           *)

\* the query string the last call found, if it was findQuery and it succeeded
FoundQuery == IF call.fn = "findQuery" /\ call.err = nil THEN {call.str} ELSE {}

\* the fragment the last call found, if it was findFragment and it succeeded
FoundFragment == IF call.fn = "findFragment" /\ call.err = nil THEN {call.str} ELSE {}

CallFindQuery ==
    /\ LET r == findQuery(target)
       IN  call' = [fn |-> "findQuery", arg |-> target, str |-> r.str, idx |-> r.idx,
                    params |-> EmptyParams, err |-> r.err]
    /\ UNCHANGED <<target, requestVars, headerVars, responseVars, programVars>>

\* parseQuery on the text itself or, as the tests do, on what findQuery returned
CallParseQuery ==
    /\ \E query \in {target} \cup FoundQuery :
         LET r == parseQuery(query)
         IN  call' = [fn |-> "parseQuery", arg |-> query, str |-> <<>>, idx |-> -1,
                      params |-> r.params, err |-> r.err]
    /\ UNCHANGED <<target, requestVars, headerVars, responseVars, programVars>>

CallFindAndParseQuery ==
    /\ LET r == FindAndParseQuery(target)
       IN  call' = [fn |-> "FindAndParseQuery", arg |-> target, str |-> <<>>,
                    idx |-> r.idx, params |-> r.params, err |-> r.err]
    /\ UNCHANGED <<target, requestVars, headerVars, responseVars, programVars>>

CallFindFragment ==
    /\ LET r == findFragment(target)
       IN  call' = [fn |-> "findFragment", arg |-> target, str |-> r.str, idx |-> r.idx,
                    params |-> EmptyParams, err |-> r.err]
    /\ UNCHANGED <<target, requestVars, headerVars, responseVars, programVars>>

\* parseFragment on the text itself or on what findFragment returned
CallParseFragment ==
    /\ \E fragment \in {target} \cup FoundFragment :
         LET r == parseFragment(fragment)
         IN  call' = [fn |-> "parseFragment", arg |-> fragment, str |-> r.str, idx |-> -1,
                      params |-> EmptyParams, err |-> r.err]
    /\ UNCHANGED <<target, requestVars, headerVars, responseVars, programVars>>

CallFindAndParseFragment ==
    /\ LET r == FindAndParseFragment(target)
       IN  call' = [fn |-> "FindAndParseFragment", arg |-> target, str |-> r.str,
                    idx |-> r.idx, params |-> EmptyParams, err |-> r.err]
    /\ UNCHANGED <<target, requestVars, headerVars, responseVars, programVars>>

CallParseRequestTarget ==
    /\ LET r == parseRequestTarget(target)
       IN  call' = [fn |-> "parseRequestTarget", arg |-> target, str |-> r.path,
                    idx |-> -1, params |-> EmptyParams, err |-> r.err]
    /\ UNCHANGED <<target, requestVars, headerVars, responseVars, programVars>>

Init ==
    /\ target \in Targets
    /\ call = NoCall
    /\ RequestsIdle
    /\ HeadersIdle
    /\ ResponsesIdle
    /\ ProgramIdle

Next ==
    \/ CallFindQuery
    \/ CallParseQuery
    \/ CallFindAndParseQuery
    \/ CallFindFragment
    \/ CallParseFragment
    \/ CallFindAndParseFragment
    \/ CallParseRequestTarget

\* the extractor functions applied, in any order, to one request-target
Spec == Init /\ [][Next]_vars

----------------------------------------------------------------------------
(* Claims about the extractors and the decomposer, checked under Spec.     *)

\* position (1-based) of the first occurrence of character c in s, 0 if there is none
FirstPos(s, c) ==
    IF \E i \in 1..Len(s) : s[i] = c
    THEN CHOOSE i \in 1..Len(s) : s[i] = c /\ \A j \in 1..Len(s) : s[j] = c => i <= j
    ELSE 0

\* s has a "#" and it comes before every "?" of s, of which there is at least one
FragmentFirst(s) ==
    FirstPos(s, "#") # 0 /\ FirstPos(s, "?") # 0 /\ FirstPos(s, "#") < FirstPos(s, "?")

\* where s is cut to obtain its path: before the earlier of the first "?" and first "#"
CutPos(s) ==
    LET marks == {FirstPos(s, "?"), FirstPos(s, "#")} \ {0}
    IN  IF marks = {} THEN Len(s) + 1 ELSE CHOOSE m \in marks : \A n \in marks : m <= n

\* the end (1-based, inclusive) of the query of s: up to the first "#" or the end of s
QueryEnd(s) == IF FirstPos(s, "#") # 0 THEN FirstPos(s, "#") - 1 ELSE Len(s)

\* C5: for every request-target parseRequestTarget accepts, the returned path is the
\* target truncated at the smaller of the indices of the first "#" and the first "?"
\* (the whole target when it has neither), so the path holds no "?" and no "#".
C5_PathTruncatedAtFirstMark ==
    (call.fn = "parseRequestTarget" /\ call.err = nil)
        => /\ call.str = SubSeq(target, 1, CutPos(target) - 1)
           /\ ~Contains(call.str, "?")
           /\ ~Contains(call.str, "#")

\* C6: for a request-target whose "#" precedes its first "?", parseRequestTarget
\* succeeds and the path is the text before the "#" (the "?" stays in the fragment).
C6_FragmentFirstAccepted ==
    (call.fn = "parseRequestTarget" /\ FragmentFirst(target))
        => /\ call.err = nil
           /\ call.str = SubSeq(target, 1, FirstPos(target, "#") - 1)

QueryNameValue == <<"?", "n", "a", "m", "e", "=", "v", "a", "l", "u", "e">>
QueryNameWithSpaceValue == <<"?", "n", "a", "m", "e", " ", "w", "i", "t", "h", " ", "s", "p", "a", "c", "e", "=", "v", "a", "l", "u", "e">>

\* C8: the strings findQuery and findFragment return end in no space character:
\* findQuery("/page?name=value ") is "?name=value", findQuery("/page?name with
\* space=value # fdsfds") is "?name with space=value", findFragment("/page# ") is "#".
C8_NoTrailingSpace ==
    (call.fn \in {"findQuery", "findFragment"} /\ call.err = nil)
        => /\ call.str # <<>> /\ call.str[Len(call.str)] # " "
           /\ (call.fn = "findQuery" /\ target = PageQueryTrailingSpace)
                => call.str = QueryNameValue
           /\ (call.fn = "findQuery" /\ target = PageQuerySpacesFragment)
                => call.str = QueryNameWithSpaceValue
           /\ (call.fn = "findFragment" /\ target = PageFragmentSpace)
                => call.str = <<"#">>

\* the query of s is the single character "?": nothing between its first "?" and the
\* first "#" (or the end), and no "#" before that "?"
QueryIsBareMark(s) ==
    /\ FirstPos(s, "?") # 0
    /\ ~FragmentFirst(s)
    /\ QueryEnd(s) = FirstPos(s, "?")

\* C9: FindAndParseQuery returns a Query with zero entries and a nil error both when
\* the target has no "?" (index -1) and when its query is exactly "?" (index of the "?").
C9_AbsentOrEmptyQueryIsNoError ==
    call.fn = "FindAndParseQuery"
        => /\ FirstPos(target, "?") = 0
                => call.err = nil /\ DOMAIN call.params = {} /\ call.idx = -1
           /\ QueryIsBareMark(target)
                => /\ call.err = nil
                   /\ DOMAIN call.params = {}
                   /\ call.idx = FirstPos(target, "?") - 1

\* C9's case: FindAndParseQuery("/page?") returned no entries, index 5 and no error
C9_Witness ==
    /\ call.fn = "FindAndParseQuery"
    /\ target = PageEmptyQuery
    /\ DOMAIN call.params = {}
    /\ call.idx = 5
    /\ call.err = nil

\* C10: parseQuery, given the query findQuery extracts from "/page?" (the string "?"),
\* returns a nil error and a Query with zero entries.
C10_ParseBareMarkSucceeds ==
    (call.fn = "parseQuery" /\ target = PageEmptyQuery /\ call.arg = findQuery(target).str)
        => call.err = nil /\ DOMAIN call.params = {}

\* C26: parseRequestTarget returns an error for the empty request-target "".
C26_EmptyTargetRejected ==
    (call.fn = "parseRequestTarget" /\ target = <<>>) => call.err # nil

\* the query with one leading "?" stripped
Stripped(query) == IF query # <<>> /\ query[1] = "?" THEN SubSeq(query, 2, Len(query)) ELSE query

\* the positions where a segment of q starts: the start of q and after each "&"
SegmentStarts(q) == {1} \cup {i + 1 : i \in {j \in 1..Len(q) : q[j] = "&"}}

\* the segment of q starting at position s: the text up to the next "&" or the end of q
SegmentAt(q, s) ==
    LET amps == {i \in s..Len(q) : q[i] = "&"}
        last == IF amps = {} THEN Len(q) ELSE (CHOOSE i \in amps : \A j \in amps : i <= j) - 1
    IN  SubSeq(q, s, last)

\* key and value of a segment: the text before and after its first "="
KeyOf(segment) ==
    IF FirstPos(segment, "=") = 0 THEN segment
    ELSE SubSeq(segment, 1, FirstPos(segment, "=") - 1)

ValueOf(segment) ==
    IF FirstPos(segment, "=") = 0 THEN <<>>
    ELSE SubSeq(segment, FirstPos(segment, "=") + 1, Len(segment))

\* the starts of the non-empty segments of q whose key is k
StartsOfKey(q, k) ==
    {s \in SegmentStarts(q) : SegmentAt(q, s) # <<>> /\ KeyOf(SegmentAt(q, s)) = k}

\* the n-th smallest member of a set of positions
Nth(S, n) == CHOOSE s \in S : Cardinality({u \in S : u < s}) = n - 1

NameWithSpace == <<"n", "a", "m", "e", " ", "w", "i", "t", "h", " ", "s", "p", "a", "c", "e">>
ValueWithSpace == <<"v", "a", "l", "u", "e", " ", "w", "i", "t", "h", " ", "s", "p", "a", "c", "e", "?">>
Name == <<"n", "a", "m", "e">>
Value == <<"v", "a", "l", "u", "e">>

\* C12: parseQuery percent-decodes keys and values: the query found in
\* "/page?name%20with%20space=value" parses to the single entry "name with space" ->
\* ["value"], and the one found in "/page?name=value%20with%20space?" parses to
\* "name" -> ["value with space?"].
C12_ParseQueryDecodes ==
    (call.fn = "parseQuery" /\ call.arg = findQuery(target).str)
        => /\ target = PageEncodedKey
                => DOMAIN call.params = {NameWithSpace}
                   /\ call.params[NameWithSpace] = <<Value>>
           /\ target = PageEncodedValue
                => DOMAIN call.params = {Name} /\ call.params[Name] = <<ValueWithSpace>>

\* C13: FindAndParseFragment reports absence as a failure: for a target without "#" it
\* returns the empty fragment, index -1 and ErrFragmentNotFound; for a target with "#"
\* it returns the index of the first "#" and the result of parseFragment on the text
\* from that "#" to the end of the target, which may contain "?".
C13_FindAndParseFragment ==
    call.fn = "FindAndParseFragment"
        => IF FirstPos(target, "#") = 0
           THEN call.str = <<>> /\ call.idx = -1 /\ call.err = ErrFragmentNotFound
           ELSE LET rest == SubSeq(target, FirstPos(target, "#"), Len(target))
                IN  /\ call.idx = FirstPos(target, "#") - 1
                    /\ call.str = parseFragment(rest).str
                    /\ call.err = parseFragment(rest).err

\* FindAndParseFragment has returned a fragment that holds a "?"
C13_Witness ==
    /\ call.fn = "FindAndParseFragment"
    /\ call.err = nil
    /\ call.idx > 0
    /\ \E i \in 2..Len(call.str) : call.str[i] = "?"

\* C14: parseFragment agrees with this reference on every input f, the checks applied
\* in this order: "" -> ErrFragmentEmpty; f not starting with "#" ->
\* ErrFragmentNoHashPrefix; f containing tab, CR or LF -> ErrFragmentWhitespace;
\* otherwise success returning f unchanged, "#" included (a space, a second "#" and a
\* bare "#" are accepted).
C14_ParseFragmentReference ==
    call.fn = "parseFragment"
        => LET f == call.arg
           IN  IF Len(f) = 0 THEN call.str = <<>> /\ call.err = ErrFragmentEmpty
               ELSE IF f[1] # "#" THEN call.str = <<>> /\ call.err = ErrFragmentNoHashPrefix
               ELSE IF \E i \in 1..Len(f) : f[i] \in {"\t", "\r", "\n"}
               THEN call.str = <<>> /\ call.err = ErrFragmentWhitespace
               ELSE call.str = f /\ call.err = nil

\* parseFragment has rejected, for its missing "#", an input that also holds a tab
C14_Witness ==
    /\ call.fn = "parseFragment"
    /\ call.err = ErrFragmentNoHashPrefix
    /\ \E i \in 1..Len(call.arg) : call.arg[i] = "\t"

----------------------------------------------------------------------------
(* Raw requests and parseRequest called on them.                           *)

GET == <<"G", "E", "T">>
FOO == <<"F", "O", "O">>
HTTP1_1 == <<"H", "T", "T", "P", "/", "1", ".", "1">>
HostX == <<"H", "o", "s", "t", ":", " ", "x">>
HTTP2_0 == <<"H", "T", "T", "P", "/", "2", ".", "0">>
HostNoColon == <<"H", "o", "s", "t", " ", "x">>

\* the request-target of the end-to-end example, "/search?q=a&q=b#r"
SearchTarget == <<"/", "s", "e", "a", "r", "c", "h", "?", "q", "=", "a", "&", "q", "=", "b", "#", "r">>

\* the characters request-targets inside raw requests are enumerated over
ReqTargetChars == {"/", "a", "?", "#", "=", "&"}

\* the parts of the targets of shape P?k=v1&k=v2#F
ShapePaths == {<<"/">>, <<"/", "s", "e", "a", "r", "c", "h">>}
ShapeKeys == {<<"q">>, <<>>}
ShapeValues == {<<"a">>, <<"b">>, <<"a", "=", "b">>}
ShapeFragments == {<<"r">>, <<>>}

\* the request-target P?k=v1&k=v2#F
RepeatedKeyTarget(P, k, v1, v2, F) ==
    P \o <<"?">> \o k \o <<"=">> \o v1 \o <<"&">> \o k \o <<"=">> \o v2 \o <<"#">> \o F

RepeatedKeyTargets ==
    {RepeatedKeyTarget(P, k, v1, v2, F) :
        P \in ShapePaths, k \in ShapeKeys, v1 \in ShapeValues, v2 \in ShapeValues,
        F \in ShapeFragments}

ReqTargets == Strings(ReqTargetChars, MaxReqTargetLen) \cup RepeatedKeyTargets

Methods == {GET, FOO}
Protocols == {HTTP1_1}
\* the header lines of a request: none, or the one line "Host: x"
HeaderBlocks == {<<>>, <<HostX>>}
Bodies == {<<>>}

\* header lines, each followed by CRLF
RECURSIVE HeaderText(_)
HeaderText(lines) ==
    IF lines = <<>> THEN <<>> ELSE Head(lines) \o CRLF \o HeaderText(Tail(lines))

\* the text of a request: start line, CRLF, header lines, CRLF, body
RawRequest(method, requestTarget, protocol, lines, body) ==
    method \o <<" ">> \o requestTarget \o <<" ">> \o protocol \o CRLF
        \o HeaderText(lines) \o CRLF \o body

\* the tokens start lines are built from, and the start lines of up to MaxTokens tokens
StartLineTokens == {FOO, <<"/">>, HTTP2_0, <<>>}
StartLines ==
    {Join(ts, <<" ">>) : ts \in UNION {[1..k -> StartLineTokens] : k \in 0..MaxTokens}}

\* what follows the start line: headers, separators and body, well-formed or not
Tails ==
    {HeaderBodySeparator,
     HeaderBodySeparator \o <<"b">>,
     CRLF \o HostX \o HeaderBodySeparator \o <<"b">>,
     CRLF \o HostNoColon \o HeaderBodySeparator,
     <<>>,
     CRLF \o HostX \o CRLF,
     HeaderBodySeparator \o <<"b">> \o HeaderBodySeparator \o <<"c">>,
     HeaderBodySeparator \o <<"b", " ", "c", " ">>,
     HeaderBodySeparator \o CRLF \o <<"b">>}

FramedRequests == {sl \o tl : sl \in StartLines, tl \in Tails}

RawRequests ==
    {RawRequest(m, t, p, hs, b) :
        m \in Methods, t \in ReqTargets, p \in Protocols, hs \in HeaderBlocks, b \in Bodies}
        \cup FramedRequests

\* one more call of parseRequest on the raw text
CallParseRequest ==
    /\ Len(results) < MaxCalls
    /\ \E r \in parseRequest(raw) : results' = Append(results, r)
    /\ UNCHANGED <<raw, extractorVars, headerVars, responseVars, programVars>>

InitRequest ==
    /\ raw \in RawRequests
    /\ results = <<>>
    /\ ExtractorsIdle
    /\ HeadersIdle
    /\ ResponsesIdle
    /\ ProgramIdle

NextRequest == CallParseRequest

\* parseRequest called repeatedly on one raw request
SpecRequest == InitRequest /\ [][NextRequest]_vars

----------------------------------------------------------------------------
(* Claims about parseRequest, checked under SpecRequest.                   *)

\* the request-target of the raw text: the second token of the first line of the
\* space-trimmed text
RawTarget == Split(Split(Trim(raw, {" "}), CRLF)[1], <<" ">>)[2]

\* the RequestTarget of the i-th result
ResultTarget(i) == results[i].req.StartLine.RequestTarget

\* C1: for every accepted request-target whose first "?" occurs before its first "#",
\* the stored RequestTarget satisfies Path + Query + Fragment = the request-target.
C1_RawReconstruction ==
    \A i \in 1..Len(results) :
        (/\ results[i].err = nil
         /\ FirstPos(RawTarget, "?") # 0
         /\ FirstPos(RawTarget, "?") < FirstPos(RawTarget, "#"))
            => RequestTargetString(ResultTarget(i)) = RawTarget

\* C2: in every Request parseRequest returns, Query is empty when the request-target
\* has no "?" and otherwise begins with "?", and Fragment is empty when the
\* request-target has no "#" and otherwise begins with "#".
C2_QueryAndFragmentMarks ==
    \A i \in 1..Len(results) :
        results[i].err = nil
            => /\ FirstPos(RawTarget, "?") = 0 => ResultTarget(i).Query = <<>>
               /\ FirstPos(RawTarget, "?") # 0
                    => ResultTarget(i).Query # <<>> /\ Head(ResultTarget(i).Query) = "?"
               /\ FirstPos(RawTarget, "#") = 0 => ResultTarget(i).Fragment = <<>>
               /\ FirstPos(RawTarget, "#") # 0
                    => /\ ResultTarget(i).Fragment # <<>>
                       /\ Head(ResultTarget(i).Fragment) = "#"

\* C3: parseRequest is deterministic: any two calls on the same raw text return equal
\* Requests (the Query string included) or the same error.
C3_Deterministic ==
    \A i, j \in 1..Len(results) : results[i] = results[j]

\* what C4 expects of parsing M P?k=v1&k=v2#F PROTO CRLF H: x CRLF CRLF
ShapeCases ==
    {[raw |-> RawRequest(M, RepeatedKeyTarget(P, k, v1, v2, F), PROTO, <<HostX>>, <<>>),
      target |-> RepeatedKeyTarget(P, k, v1, v2, F),
      key |-> k,
      values |-> <<v1, v2>>,
      expected |->
        [req |->
           [StartLine |->
              [Method |-> M,
               RequestTarget |->
                  [Path |-> P,
                   Query |-> <<"?">> \o k \o <<"=">> \o v1 \o <<"&">> \o k \o <<"=">> \o v2,
                   Fragment |-> <<"#">> \o F],
               Protocol |-> PROTO],
            Headers |-> <<[Name |-> <<"H", "o", "s", "t">>, Value |-> <<"x">>]>>,
            Body |-> <<>>],
         err |-> nil, cause |-> nil]] :
        M \in Methods, P \in ShapePaths, k \in ShapeKeys, v1 \in ShapeValues,
        v2 \in ShapeValues, F \in ShapeFragments, PROTO \in Protocols}

\* C4: parsing a well-formed request M P?k=v1&k=v2#F PROTO CRLF H: x CRLF CRLF (one
\* repeated key, non-empty values) yields method M, Path P, the query k -> [v1, v2]
\* (Query string ?k=v1&k=v2), Fragment #F, protocol PROTO, the one header {H, x} and
\* an empty body.
C4_RepeatedKeyRequest ==
    \A c \in ShapeCases :
        raw = c.raw
            => /\ \A i \in 1..Len(results) : results[i] = c.expected
               /\ Len(results) >= 1
                    => LET q == FindAndParseQuery(c.target)
                       IN  /\ q.err = nil
                           /\ DOMAIN q.params = {c.key}
                           /\ q.params[c.key] = c.values

\* C4's case: "GET /search?q=a&q=b#r HTTP/1.1" with header "Host: x" has been parsed
C4_Witness ==
    /\ raw = RawRequest(GET, SearchTarget, HTTP1_1, <<HostX>>, <<>>)
    /\ Len(results) >= 1
    /\ results[1].err = nil
    /\ ResultTarget(1).Query = <<"?", "q", "=", "a", "&", "q", "=", "b">>
    /\ ResultTarget(1).Fragment = <<"#", "r">>

----------------------------------------------------------------------------
(* Header lines and Header values, and the header calls made on them.      *)

HeaderChars == {"a", ":", " ", "-", "\t"}
NameChars == {"a", "-", " "}
ValueChars == {"x", ":", " "}

\* header lines of TestParseHeader
LineHost == <<"H", "o", "s", "t", ":", " ", "e", "x", "a", "m", "p", "l", "e", ".", "c", "o", "m">>
LineEmptyValue == <<"E", "m", "p", "t", "y", ":", " ">>
LineNoColon == <<"I", "n", "v", "a", "l", "i", "d", "H", "e", "a", "d", "e", "r">>
LineSpaceInName == <<"I", "n", "v", "a", "l", "i", "d", " ", "H", "e", "a", "d", "e", "r", ":", " ", "v", "a", "l", "u", "e">>
LineMultipleColons == <<"S", "e", "t", "-", "C", "o", "o", "k", "i", "e", ":", " ", "n", "a", "m", "e", "=", "v", "a", "l", "u", "e", ";", " ", "e", "x", "p", "i", "r", "e", "s", "=", "d", "a", "t", "e">>
LineSurroundingSpace == <<" ", " ", " ", "S", "e", "r", "v", "e", "r", ":", " ", " ", " ", "A", "p", "a", "c", "h", "e", " ", " ", " ">>
LineEmptyName == <<":", " ", "v", "a", "l", "u", "e">>
TestLines ==
    {LineHost, LineEmptyValue, LineNoColon, LineSpaceInName, LineMultipleColons,
     LineSurroundingSpace, LineEmptyName}

HeaderLines == Strings(HeaderChars, MaxHeaderLen) \cup TestLines

\* headers of TestHeaderString
HeaderContentType == [Name |-> <<"C", "o", "n", "t", "e", "n", "t", "-", "T", "y", "p", "e">>, Value |-> <<"t", "e", "x", "t", "/", "h", "t", "m", "l">>]
HeaderConnection == [Name |-> <<"C", "o", "n", "n", "e", "c", "t", "i", "o", "n">>, Value |-> <<>>]
HeaderNoName == [Name |-> <<>>, Value |-> <<"k", "e", "e", "p", "-", "a", "l", "i", "v", "e">>]
TestHeaders == {HeaderContentType, HeaderConnection, HeaderNoName}

Headers ==
    {[Name |-> n, Value |-> v] : n \in Strings(NameChars, MaxNameLen),
                                 v \in Strings(ValueChars, MaxValueLen)}
        \cup TestHeaders

\* the text the last call produced, if it was Header.String
StringText == IF hcall.fn = "String" THEN {hcall.text} ELSE {}

CallHeaderString ==
    /\ hcall' = [fn |-> "String", arg |-> <<>>, text |-> HeaderString(hdr), header |-> hdr,
                 err |-> nil]
    /\ UNCHANGED <<line, hdr, extractorVars, requestVars, responseVars, programVars>>

CallParseHeader ==
    /\ \E header \in {line} \cup StringText :
         LET r == parseHeader(header)
         IN  hcall' = [fn |-> "parseHeader", arg |-> header, text |-> <<>>,
                      header |-> r.header, err |-> r.err]
    /\ UNCHANGED <<line, hdr, extractorVars, requestVars, responseVars, programVars>>

InitHeader ==
    /\ \/ line \in HeaderLines /\ hdr = NoHeader
       \/ line = <<>> /\ hdr \in Headers
    /\ hcall = NoHeaderCall
    /\ ExtractorsIdle
    /\ RequestsIdle
    /\ ResponsesIdle
    /\ ProgramIdle

NextHeader ==
    \/ CallHeaderString
    \/ CallParseHeader

SpecHeader == InitHeader /\ [][NextHeader]_vars

----------------------------------------------------------------------------
(* Claims about headers, checked under SpecHeader.                         *)

\* s without its leading and trailing whitespace
StripSpace(s) ==
    LET keep == {i \in 1..Len(s) : s[i] \notin WhiteSpace}
    IN  IF keep = {} THEN <<>>
        ELSE SubSeq(s, CHOOSE i \in keep : \A j \in keep : i <= j,
                       CHOOSE i \in keep : \A j \in keep : j <= i)

\* name is a non-empty RFC 7230 token
IsToken(name) == name # <<>> /\ \A i \in 1..Len(name) : name[i] \in TokenChars

\* C15: parseHeader classifies every line in this order: no ":" -> missing-colon error;
\* name (the text before the first ":", whitespace-trimmed) empty -> empty-name error;
\* name holding a character outside the RFC 7230 token set -> invalid-name-characters
\* error; otherwise success with that name and the value equal to everything after the
\* first ":" (later colons included) trimmed of surrounding whitespace, an empty value
\* being valid.
C15_ParseHeaderClassification ==
    hcall.fn = "parseHeader"
        => LET l == hcall.arg
               c == FirstPos(l, ":")
               name == StripSpace(SubSeq(l, 1, c - 1))
               value == StripSpace(SubSeq(l, c + 1, Len(l)))
           IN  IF c = 0
               THEN /\ hcall.err = "invalid header format: missing colon"
                    /\ hcall.header = NoHeader
               ELSE IF name = <<>>
               THEN /\ hcall.err = "invalid header format: empty name"
                    /\ hcall.header = NoHeader
               ELSE IF \E i \in 1..Len(name) : name[i] \notin TokenChars
               THEN /\ hcall.err = "invalid header format: invalid characters in name"
                    /\ hcall.header = NoHeader
               ELSE /\ hcall.err = nil
                    /\ hcall.header = [Name |-> name, Value |-> value]

\* parseHeader has accepted a line whose value holds a later colon
C15_Witness ==
    /\ hcall.fn = "parseHeader"
    /\ hcall.err = nil
    /\ \E i \in 1..Len(hcall.header.Value) : hcall.header.Value[i] = ":"

\* C16: for every Header h whose name is a non-empty RFC 7230 token and whose value has
\* no leading or trailing whitespace (the empty value included), h.String() is
\* name + ": " + value and parseHeader(h.String()) succeeds and returns a header equal
\* to h.
C16_HeaderRoundTrip ==
    (IsToken(hdr.Name) /\ StripSpace(hdr.Value) = hdr.Value)
        => /\ hcall.fn = "String" => hcall.text = hdr.Name \o <<":", " ">> \o hdr.Value
           /\ (hcall.fn = "parseHeader" /\ hcall.arg = hdr.Name \o <<":", " ">> \o hdr.Value)
                => hcall.err = nil /\ hcall.header = hdr

\* parseHeader has parsed the String() of a header with a token name and a value that
\* holds an inner space
C16_Witness ==
    /\ hcall.fn = "parseHeader"
    /\ hcall.arg = HeaderString(hdr)
    /\ IsToken(hdr.Name)
    /\ StripSpace(hdr.Value) = hdr.Value
    /\ \E i \in 1..Len(hdr.Value) : hdr.Value[i] = " "
    /\ hcall.header = hdr

----------------------------------------------------------------------------
(* Claims about the framing of requests, checked under SpecRequest.        *)

\* s without its leading and trailing spaces
StripBlanks(s) ==
    LET keep == {i \in 1..Len(s) : s[i] # " "}
    IN  IF keep = {} THEN <<>>
        ELSE SubSeq(s, CHOOSE i \in keep : \A j \in keep : i <= j,
                       CHOOSE i \in keep : \A j \in keep : j <= i)

\* CR LF CR LF stands at position i of s
SeparatorAt(s, i) ==
    /\ i + 3 <= Len(s)
    /\ s[i] = "\r" /\ s[i + 1] = "\n" /\ s[i + 2] = "\r" /\ s[i + 3] = "\n"

\* the number of separators met when s is read from position i, left to right, the
\* reading resumed after each separator met
RECURSIVE SeparatorsFrom(_, _)
SeparatorsFrom(s, i) ==
    IF i > Len(s) THEN 0
    ELSE IF SeparatorAt(s, i) THEN 1 + SeparatorsFrom(s, i + 4)
    ELSE SeparatorsFrom(s, i + 1)

\* the position of the first separator of s (s has one)
FirstSeparator(s) ==
    CHOOSE i \in 1..Len(s) : SeparatorAt(s, i) /\ \A j \in 1..(i - 1) : ~SeparatorAt(s, j)

\* the part of the text t before its first separator, and the part after it
HeadOf(t) == SubSeq(t, 1, FirstSeparator(t) - 1)
BodyOf(t) == SubSeq(t, FirstSeparator(t) + 4, Len(t))

\* C17: parseRequest succeeds only if splitting the space-trimmed raw text on CRLF CRLF
\* gives exactly two parts: no separator and two or more separators (a body that
\* itself holds CRLF CRLF) both give the missing-separator error, and on success Body is
\* the second part verbatim.
C17_ExactlyOneSeparator ==
    LET text == StripBlanks(raw)
        separators == SeparatorsFrom(text, 1)
    IN  \A i \in 1..Len(results) :
            /\ separators # 1
                 => results[i].err = "invalid request format: missing separator"
            /\ separators = 1
                 => results[i].err # "invalid request format: missing separator"
            /\ results[i].err = nil
                 => separators = 1 /\ results[i].req.Body = BodyOf(text)

\* parseRequest has rejected a well-formed head whose body holds a second separator
C17_Witness ==
    /\ raw = FOO \o <<" ", "/", " ">> \o HTTP2_0
                \o HeaderBodySeparator \o <<"b">> \o HeaderBodySeparator \o <<"c">>
    /\ Len(results) >= 1
    /\ results[1].err = "invalid request format: missing separator"

\* the start line of a head: the head up to its first CRLF
StartLineOf(head) ==
    LET ends == {i \in 1..(Len(head) - 1) : head[i] = "\r" /\ head[i + 1] = "\n"}
    IN  IF ends = {} THEN head
        ELSE SubSeq(head, 1, (CHOOSE i \in ends : \A j \in ends : i <= j) - 1)

\* the positions of the spaces of a start line, and the n-th token, n in 1..3, of a
\* start line with exactly two spaces
SpacesOf(startline) == {i \in 1..Len(startline) : startline[i] = " "}
TokenOf(startline, n) ==
    LET spaces == SpacesOf(startline)
        first == CHOOSE i \in spaces : \A j \in spaces : i <= j
        second == CHOOSE i \in spaces : \A j \in spaces : j <= i
    IN  CASE n = 1 -> SubSeq(startline, 1, first - 1)
          [] n = 2 -> SubSeq(startline, first + 1, second - 1)
          [] n = 3 -> SubSeq(startline, second + 1, Len(startline))

\* C18: parseRequest rejects with the invalid-start-line error every start line that
\* does not split on single spaces into exactly 3 tokens; a 3-token start line is never
\* rejected for the value of its method or protocol token: the outcome depends on the
\* request-target and the header lines alone, unknown methods and protocols are stored
\* as given, and any method may carry a non-empty body.
C18_StartLineTokens ==
    LET text == StripBlanks(raw)
        head == HeadOf(text)
        startline == StartLineOf(head)
        target_err == parseRequestTarget(TokenOf(startline, 2)).err
        header_err == parseHeaderLines(Tail(Split(head, CRLF)), <<>>).err
    IN  \A i \in 1..Len(results) :
            SeparatorsFrom(text, 1) = 1
                => IF Cardinality(SpacesOf(startline)) # 2
                   THEN results[i].err = "invalid startline format"
                   ELSE IF target_err # nil
                   THEN results[i].err = "invalid request target"
                   ELSE IF header_err # nil
                   THEN results[i].err = "invalid header"
                   ELSE /\ results[i].err = nil
                        /\ results[i].req.StartLine.Method = TokenOf(startline, 1)
                        /\ results[i].req.StartLine.Protocol = TokenOf(startline, 3)
                        /\ results[i].req.Body = BodyOf(text)

\* parseRequest has accepted method FOO with protocol HTTP/2.0 and a non-empty body
C18_Witness ==
    /\ Len(results) >= 1
    /\ results[1].err = nil
    /\ results[1].req.StartLine.Method = FOO
    /\ results[1].req.StartLine.Protocol = HTTP2_0
    /\ results[1].req.Body # <<>>

----------------------------------------------------------------------------
(* Raw responses and Response values, and the response calls made on them. *)

\* the tokens response start lines are built from
ResponseTokens == {HTTP2_0, <<"9", "9", "9">>, <<"O", "K">>, <<>>, <<"2", "x">>}

\* start lines whose second token is signed, zero-padded or a bare sign
StartLineNegative == <<"H", "T", "T", "P", "/", "1", ".", "1", " ", "-", "1", " ", "O", "K">>
StartLinePlus == <<"H", "T", "T", "P", "/", "1", ".", "1", " ", "+", "2", "0", "0", " ", "O", "K">>
StartLinePadded == <<"H", "T", "T", "P", "/", "1", ".", "1", " ", "0", "0", "7", " ", "O", "K">>
StartLineBareSign == <<"H", "T", "T", "P", "/", "1", ".", "1", " ", "-", " ", "O", "K">>

ResponseStartLines ==
    {Join(ts, <<" ">>) : ts \in UNION {[1..k -> ResponseTokens] : k \in 0..MaxTokens}}
        \cup {StartLineNegative, StartLinePlus, StartLinePadded, StartLineBareSign}

ResponseTails ==
    {HeaderBodySeparator,
     HeaderBodySeparator \o <<"b">>,
     CRLF \o HostX \o HeaderBodySeparator \o <<"b">>,
     CRLF \o HostNoColon \o HeaderBodySeparator,
     <<>>}

\* response strings of TestResponseParsing
ResponseValid == <<"H", "T", "T", "P", "/", "1", ".", "1", " ", "2", "0", "0", " ", "O", "K", "\r", "\n", "C", "o", "n", "t", "e", "n", "t", "-", "T", "y", "p", "e", ":", " ", "t", "e", "x", "t", "/", "h", "t", "m", "l", "\r", "\n", "C", "o", "n", "t", "e", "n", "t", "-", "L", "e", "n", "g", "t", "h", ":", " ", "2", "2", "\r", "\n", "\r", "\n", "<", "h", "1", ">", "H", "e", "l", "l", "o", " ", "W", "o", "r", "l", "d", "<", "/", "h", "1", ">">>
ResponseNoBody == <<"H", "T", "T", "P", "/", "1", ".", "1", " ", "2", "0", "4", " ", "N", "o", " ", "C", "o", "n", "t", "e", "n", "t", "\r", "\n", "S", "e", "r", "v", "e", "r", ":", " ", "T", "e", "s", "t", "S", "e", "r", "v", "e", "r", "\r", "\n", "D", "a", "t", "e", ":", " ", "M", "o", "n", ",", " ", "2", "7", " ", "J", "u", "l", " ", "2", "0", "2", "2", " ", "1", "2", ":", "2", "8", ":", "5", "3", " ", "G", "M", "T", "\r", "\n", "\r", "\n">>
ResponseNoSeparator == <<"H", "T", "T", "P", "/", "1", ".", "1", " ", "2", "0", "0", " ", "O", "K", "\r", "\n", "C", "o", "n", "t", "e", "n", "t", "-", "T", "y", "p", "e", ":", " ", "t", "e", "x", "t", "/", "h", "t", "m", "l", "\r", "\n", "C", "o", "n", "t", "e", "n", "t", "-", "L", "e", "n", "g", "t", "h", ":", " ", "2", "2">>
ResponseOtherProtocol == <<"H", "T", "T", "P", "/", "2", ".", "0", " ", "2", "0", "0", " ", "O", "K", "\r", "\n", "C", "o", "n", "t", "e", "n", "t", "-", "T", "y", "p", "e", ":", " ", "t", "e", "x", "t", "/", "h", "t", "m", "l", "\r", "\n", "\r", "\n", "<", "h", "1", ">", "H", "e", "l", "l", "o", " ", "W", "o", "r", "l", "d", "<", "/", "h", "1", ">">>
ResponseOtherStatus == <<"H", "T", "T", "P", "/", "1", ".", "1", " ", "9", "9", "9", " ", "I", "n", "v", "a", "l", "i", "d", "\r", "\n", "C", "o", "n", "t", "e", "n", "t", "-", "T", "y", "p", "e", ":", " ", "t", "e", "x", "t", "/", "h", "t", "m", "l", "\r", "\n", "\r", "\n", "<", "h", "1", ">", "E", "r", "r", "o", "r", "<", "/", "h", "1", ">">>
ResponseBadHeader == <<"H", "T", "T", "P", "/", "1", ".", "1", " ", "2", "0", "0", " ", "O", "K", "\r", "\n", "C", "o", "n", "t", "e", "n", "t", "-", "T", "y", "p", "e", " ", "t", "e", "x", "t", "/", "h", "t", "m", "l", "\r", "\n", "\r", "\n", "<", "h", "1", ">", "H", "e", "l", "l", "o", " ", "W", "o", "r", "l", "d", "<", "/", "h", "1", ">">>
TestResponses ==
    {ResponseValid, ResponseNoBody, ResponseNoSeparator, ResponseOtherProtocol,
     ResponseOtherStatus, ResponseBadHeader}

RawResponses == {sl \o tl : sl \in ResponseStartLines, tl \in ResponseTails} \cup TestResponses

\* the Response of TestResponseString
ResponseHelloWorld ==
    [StartLine |-> [Protocol |-> HTTP1_1, StatusCode |-> 200, StatusText |-> <<"O", "K">>],
     Headers |-> <<[Name |-> <<"C", "o", "n", "t", "e", "n", "t", "-", "T", "y", "p", "e">>, Value |-> <<"t", "e", "x", "t", "/", "h", "t", "m", "l">>],
                   [Name |-> <<"C", "o", "n", "t", "e", "n", "t", "-", "L", "e", "n", "g", "t", "h">>, Value |-> <<"2", "2">>]>>,
     Body |-> <<"<", "h", "1", ">", "H", "e", "l", "l", "o", " ", "W", "o", "r", "l", "d", "<", "/", "h", "1", ">">>]

\* the fields Response values are built from, legal ones and others
ResponseProtocols == {HTTP1_1, <<>>, <<"H", " ", "1">>, <<"H", "\r", "\n", "1">>}
ResponseStatusCodes == {200, 999, 0, 0 - 1}
ResponseStatusTexts == {<<"O", "K">>, <<>>, <<"a", " ", "b">>, <<"a", "\r", "\n", "b">>}
ResponseHeaders ==
    {<<>>,
     <<[Name |-> <<"H">>, Value |-> <<"x">>]>>,
     <<[Name |-> <<"H">>, Value |-> <<"x", ":", " ", "y">>], [Name |-> <<"G">>, Value |-> <<>>]>>,
     <<[Name |-> <<"a", " ", "b">>, Value |-> <<"x">>]>>,
     <<[Name |-> <<"H">>, Value |-> <<" ", "x">>]>>,
     <<[Name |-> <<"H">>, Value |-> <<"a", "\r", "\n", "b">>]>>}
ResponseBodies ==
    {<<>>, <<"b">>, <<" ", "b">>, <<"b", " ">>, <<"\r", "\n", "b">>,
     <<"b">> \o HeaderBodySeparator \o <<"c">>}

Responses ==
    {[StartLine |-> [Protocol |-> p, StatusCode |-> c, StatusText |-> t],
      Headers |-> hs, Body |-> b] :
        p \in ResponseProtocols, c \in ResponseStatusCodes, t \in ResponseStatusTexts,
        hs \in ResponseHeaders, b \in ResponseBodies}
        \cup {ResponseHelloWorld}

\* the text the last call produced, if it was Response.String
ResponseText == IF rcall.fn = "String" THEN {rcall.text} ELSE {}

CallResponseString ==
    /\ rcall' = [fn |-> "String", arg |-> <<>>, text |-> ResponseString(resp), resp |-> resp,
                 err |-> nil, cause |-> nil]
    /\ UNCHANGED <<wire, resp, extractorVars, requestVars, headerVars, programVars>>

CallParseResponse ==
    /\ \E response \in {wire} \cup ResponseText :
         LET r == parseResponse(response)
         IN  rcall' = [fn |-> "parseResponse", arg |-> response, text |-> <<>>,
                      resp |-> r.resp, err |-> r.err, cause |-> r.cause]
    /\ UNCHANGED <<wire, resp, extractorVars, requestVars, headerVars, programVars>>

InitResponse ==
    /\ \/ wire \in RawResponses /\ resp = NoResponse
       \/ wire = <<>> /\ resp \in Responses
    /\ rcall = NoResponseCall
    /\ ExtractorsIdle
    /\ RequestsIdle
    /\ HeadersIdle
    /\ ProgramIdle

NextResponse ==
    \/ CallResponseString
    \/ CallParseResponse

SpecResponse == InitResponse /\ [][NextResponse]_vars

----------------------------------------------------------------------------
(* Claims about responses, checked under SpecResponse.                     *)

\* tok is an optionally signed decimal numeral
IsInteger(tok) ==
    LET digits == IF tok # <<>> /\ tok[1] \in {"+", "-"} THEN SubSeq(tok, 2, Len(tok)) ELSE tok
    IN  /\ digits # <<>>
        /\ \A i \in 1..Len(digits) :
              digits[i] \in {"0", "1", "2", "3", "4", "5", "6", "7", "8", "9"}

\* tok is the numeral an integer is written as: no plus sign, no padding, no "-0"
IsPlainInteger(tok) ==
    /\ IsInteger(tok)
    /\ tok[1] # "+"
    /\ tok # <<"-", "0">>
    /\ LET digits == IF tok[1] = "-" THEN SubSeq(tok, 2, Len(tok)) ELSE tok
       IN  Len(digits) = 1 \/ digits[1] # "0"

\* the second token of a start line with at least one space
SecondToken(startline) ==
    LET spaces == SpacesOf(startline)
        first == Nth(spaces, 1)
    IN  IF Cardinality(spaces) = 1 THEN SubSeq(startline, first + 1, Len(startline))
        ELSE SubSeq(startline, first + 1, Nth(spaces, 2) - 1)

\* C19 as stated, read of the texts that have a start line (one CRLF CRLF once
\* space-trimmed): parseResponse fails with the invalid-status-code error exactly when
\* the second token of the start line does not parse as an integer.
C19_StatusCodeErrorExactly ==
    (rcall.fn = "parseResponse" /\ SeparatorsFrom(StripBlanks(rcall.arg), 1) = 1)
        => LET startline == StartLineOf(HeadOf(StripBlanks(rcall.arg)))
           IN  rcall.err = "invalid status code"
                   <=> /\ Cardinality(SpacesOf(startline)) >= 1
                       /\ ~IsInteger(SecondToken(startline))

\* C19, amended: for a response text that, space-trimmed, holds exactly one CRLF CRLF,
\* a start line of fewer than three space-separated tokens fails with the
\* invalid-start-line error whatever its second token; one of three or more tokens
\* fails with the invalid-status-code error exactly when the second token does not
\* parse as an integer, and otherwise fails only for an invalid header line: any
\* protocol string and any integer status code (HTTP/2.0, 999) are accepted and stored
\* as given, and the status text is the tokens from the third onward re-joined with
\* single spaces.
C19_StatusCodeErrorFramed ==
    (rcall.fn = "parseResponse" /\ SeparatorsFrom(StripBlanks(rcall.arg), 1) = 1)
        => LET head == HeadOf(StripBlanks(rcall.arg))
               startline == StartLineOf(head)
               spaces == SpacesOf(startline)
               header_err == parseHeaderLines(Tail(Split(head, CRLF)), <<>>).err
               start == rcall.resp.StartLine
           IN  IF Cardinality(spaces) < 2
               THEN rcall.err = "invalid startline format"
               ELSE IF ~IsInteger(SecondToken(startline))
               THEN rcall.err = "invalid status code"
               ELSE IF header_err # nil
               THEN rcall.err = "invalid header"
               ELSE /\ rcall.err = nil
                    /\ start.Protocol = SubSeq(startline, 1, Nth(spaces, 1) - 1)
                    /\ IsPlainInteger(SecondToken(startline))
                         => FormatInt(start.StatusCode) = SecondToken(startline)
                    /\ start.StatusText = SubSeq(startline, Nth(spaces, 2) + 1, Len(startline))

\* parseResponse has accepted protocol HTTP/2.0 with status code 999 and a status text
\* of two tokens
C19_Witness ==
    /\ rcall.fn = "parseResponse"
    /\ rcall.err = nil
    /\ rcall.resp.StartLine.Protocol = HTTP2_0
    /\ rcall.resp.StartLine.StatusCode = 999
    /\ rcall.resp.StartLine.StatusText = <<"O", "K", " ", "O", "K">>

\* s holds CR LF
HasCRLF(s) == \E i \in 1..(Len(s) - 1) : s[i] = "\r" /\ s[i + 1] = "\n"

\* the layout protocol SP status-code SP status-text CRLF, "name: value" CRLF for each
\* header, CRLF, body
RECURSIVE Lines(_)
Lines(headers) ==
    IF headers = <<>> THEN <<>>
    ELSE <<Head(headers).Name \o <<":", " ">> \o Head(headers).Value>> \o Lines(Tail(headers))

Layout(r) ==
    Join(<<Join(<<r.StartLine.Protocol, FormatInt(r.StartLine.StatusCode),
                  r.StartLine.StatusText>>, <<" ">>)>>
            \o Lines(r.Headers) \o <<<<>>, r.Body>>,
         CRLF)

\* the headers and body C20 speaks of: token-legal names, whitespace-trimmed values, a
\* body without CRLF CRLF and without trailing spaces
LegalHeadersAndBody(r) ==
    /\ \A i \in 1..Len(r.Headers) :
          IsToken(r.Headers[i].Name) /\ StripSpace(r.Headers[i].Value) = r.Headers[i].Value
    /\ \A i \in 1..Len(r.Body) : ~SeparatorAt(r.Body, i)
    /\ r.Body = <<>> \/ r.Body[Len(r.Body)] # " "

\* the start line and header values the round trip needs besides: a non-empty protocol
\* without space and without CRLF, a status text and header values without CRLF
LegalStartLine(r) ==
    /\ r.StartLine.Protocol # <<>>
    /\ \A i \in 1..Len(r.StartLine.Protocol) : r.StartLine.Protocol[i] # " "
    /\ ~HasCRLF(r.StartLine.Protocol)
    /\ ~HasCRLF(r.StartLine.StatusText)
    /\ \A i \in 1..Len(r.Headers) : ~HasCRLF(r.Headers[i].Value)

\* C20 as stated: Response.String() produces the layout, and for every Response r with
\* token-legal header names, whitespace-trimmed header values, a body without CRLF CRLF
\* and without trailing spaces, parseResponse(r.String()) equals r.
C20_ResponseRoundTrip ==
    /\ rcall.fn = "String" => rcall.text = Layout(resp)
    /\ (rcall.fn = "parseResponse" /\ rcall.arg = Layout(resp) /\ LegalHeadersAndBody(resp))
         => rcall.err = nil /\ rcall.resp = resp

\* C20, amended: Response.String() produces the layout, and for every Response r with
\* a non-empty protocol holding no space and no CRLF, a status text holding no CRLF,
\* token-legal header names, whitespace-trimmed header values holding no CRLF, a body
\* without CRLF CRLF and without trailing spaces, parseResponse(r.String()) equals r.
C20_ResponseRoundTripLegalStartLine ==
    /\ rcall.fn = "String" => rcall.text = Layout(resp)
    /\ (/\ rcall.fn = "parseResponse"
        /\ rcall.arg = Layout(resp)
        /\ LegalHeadersAndBody(resp)
        /\ LegalStartLine(resp))
         => rcall.err = nil /\ rcall.resp = resp

\* parseResponse has been given the String() of the Response of TestResponseString
\* and has returned that Response
C20_Witness ==
    /\ resp = ResponseHelloWorld
    /\ rcall.fn = "parseResponse"
    /\ rcall.arg = ResponseValid
    /\ rcall.resp = resp

----------------------------------------------------------------------------
(* Path validation and the dispatch of a request to its response.          *)

ErrInvalidPathChars == "path contains invalid characters"
ErrDirectoryTraversal == "path attempts directory traversal"
ErrEmptyPath == "path cannot be empty"
ErrForbiddenPathSegment == "path contains forbidden segment"

POST == <<"P", "O", "S", "T">>
OPTIONS == <<"O", "P", "T", "I", "O", "N", "S">>

\* the characters of code 32..95 and 97..126, in code order (the backquote, code 96,
\* is in no input of the model)
CharsFrom32 ==
    <<" ", "!", "\"", "#", "$", "%", "&", "'", "(", ")", "*", "+", ",", "-", ".", "/",
      "0", "1", "2", "3", "4", "5", "6", "7", "8", "9", ":", ";", "<", "=", ">", "?",
      "@", "A", "B", "C", "D", "E", "F", "G", "H", "I", "J", "K", "L", "M", "N", "O",
      "P", "Q", "R", "S", "T", "U", "V", "W", "X", "Y", "Z", "[", "\\", "]", "^", "_">>
CharsFrom97 ==
    <<"a", "b", "c", "d", "e", "f", "g", "h", "i", "j", "k", "l", "m", "n", "o", "p",
      "q", "r", "s", "t", "u", "v", "w", "x", "y", "z", "{", "|", "}", "~">>

\* the code point of a character, as a range statement over a string yields it
CharCode(c) ==
    IF \E i \in 1..Len(CharsFrom32) : CharsFrom32[i] = c
    THEN 31 + (CHOOSE i \in 1..Len(CharsFrom32) : CharsFrom32[i] = c)
    ELSE IF \E i \in 1..Len(CharsFrom97) : CharsFrom97[i] = c
    THEN 96 + (CHOOSE i \in 1..Len(CharsFrom97) : CharsFrom97[i] = c)
    ELSE CASE c = "\t" -> 9
           [] c = "\n" -> 10
           [] c = "\f" -> 12
           [] c = "\r" -> 13
           [] c = "é" -> 233

\* ValidatePath without its test for "..": the segment test alone sees the traversal
ValidatePathSegmentsOnly(r) ==
    LET requestTarget == RequestTargetString(r.StartLine.RequestTarget)
    IN  IF requestTarget = <<>> THEN ErrEmptyPath
        ELSE IF requestTarget = <<"*">> /\ r.StartLine.Method # OPTIONS
        THEN "cannot use * as path"
        ELSE IF ~HasPrefix(requestTarget, <<"/">>) THEN "path must start with /"
        ELSE IF \E i \in 1..Len(Split(requestTarget, <<"/">>)) :
                   Split(requestTarget, <<"/">>)[i] \in {<<".">>, <<".", ".">>}
        THEN ErrForbiddenPathSegment
        ELSE IF \E i \in 1..Len(requestTarget) :
                   CharCode(requestTarget[i]) < 32 \/ CharCode(requestTarget[i]) > 126
        THEN ErrInvalidPathChars
        ELSE nil

\* Request.ValidatePath(): the error returned, nil for a valid path
ValidatePath(r) ==
    LET requestTarget == RequestTargetString(r.StartLine.RequestTarget)
    IN  IF requestTarget = <<>> THEN ErrEmptyPath
        ELSE IF requestTarget = <<"*">> /\ r.StartLine.Method # OPTIONS
        THEN "cannot use * as path"
        ELSE IF ~HasPrefix(requestTarget, <<"/">>) THEN "path must start with /"
        ELSE IF IndexStr(requestTarget, <<".", ".">>) # -1 THEN ErrDirectoryTraversal
        ELSE IF \E i \in 1..Len(Split(requestTarget, <<"/">>)) :
                   Split(requestTarget, <<"/">>)[i] \in {<<".">>, <<".", ".">>}
        THEN ErrForbiddenPathSegment
        ELSE IF \E i \in 1..Len(requestTarget) :
                   CharCode(requestTarget[i]) < 32 \/ CharCode(requestTarget[i]) > 126
        THEN ErrInvalidPathChars
        ELSE nil

\* StatusCodeMap[code] for the codes the dispatch uses
StatusCodeMap(code) ==
    CASE code = 200 -> <<"O", "K">>
      [] code = 400 -> <<"B", "a", "d", " ", "R", "e", "q", "u", "e", "s", "t">>
      [] code = 403 -> <<"F", "o", "r", "b", "i", "d", "d", "e", "n">>
      [] code = 404 -> <<"N", "o", "t", " ", "F", "o", "u", "n", "d">>
      [] code = 405 -> <<"M", "e", "t", "h", "o", "d", " ", "N", "o", "t", " ", "A", "l", "l", "o", "w", "e", "d">>
      [] code = 500 -> <<"I", "n", "t", "e", "r", "n", "a", "l", " ", "S", "e", "r", "v", "e", "r", " ", "E", "r", "r", "o", "r">>
      [] code = 501 -> <<"N", "o", "t", " ", "I", "m", "p", "l", "e", "m", "e", "n", "t", "e", "d">>

ContentType == <<"C", "o", "n", "t", "e", "n", "t", "-", "T", "y", "p", "e">>
TextPlain == <<"t", "e", "x", "t", "/", "p", "l", "a", "i", "n">>

\* the Response literals of methods.go and fileserver.go: the request's protocol, a
\* status code with its text, the headers and a body
StatusResponse(req, code, headers, body) ==
    [StartLine |-> [Protocol |-> req.StartLine.Protocol, StatusCode |-> code,
                    StatusText |-> StatusCodeMap(code)],
     Headers |-> headers, Body |-> body]

PlainResponse(req, code, body) ==
    StatusResponse(req, code, <<[Name |-> ContentType, Value |-> TextPlain]>>, body)

\* a 501 that names HTTP/1.1 whatever the request's protocol
NotImplementedHTTP1_1(req) ==
    [StartLine |-> [Protocol |-> HTTP1_1, StatusCode |-> 501,
                    StatusText |-> StatusCodeMap(501)],
     Headers |-> <<[Name |-> ContentType, Value |-> TextPlain]>>, Body |-> <<>>]

\* the default branch of Response()
NotImplemented(req) == PlainResponse(req, 501, <<"5", "0", "1", " ", "N", "o", "t", " ", "I", "m", "p", "l", "e", "m", "e", "n", "t", "e", "d", ":", " ", "O", "n", "l", "y", " ", "G", "E", "T", " ", "i", "s", " ", "i", "m", "p", "l", "e", "m", "e", "n", "t", "e", "d">>)

\* the two 400 responses of GET()
StarNotAllowed(req) == PlainResponse(req, 400, <<"4", "0", "0", " ", "B", "a", "d", " ", "R", "e", "q", "u", "e", "s", "t", ":", " ", "*", " ", "i", "s", " ", "n", "o", "t", " ", "a", "l", "l", "o", "w", "e", "d", " ", "f", "o", "r", " ", "G", "E", "T">>)
InvalidPath(req) == PlainResponse(req, 400, <<"4", "0", "0", " ", "B", "a", "d", " ", "R", "e", "q", "u", "e", "s", "t", ":", " ", "I", "n", "v", "a", "l", "i", "d", " ", "p", "a", "t", "h">>)

\* what the file system shows ServeFile: os.Stat, the default file of a directory,
\* os.ReadFile
FileSystemOutcomes == {"not exist", "stat error", "no default file", "read error", "read"}

\* the file ServeFile reads, and its length as Content-Length renders it
FileContent == <<"h", "i">>

\* FileServer.ServeFile(req) on the receiver fs, the file system showing outcome: the
\* Response returned, or a panic (fs.Config read through a nil receiver)
ServeFile(fs, req, outcome) ==
    IF req.StartLine.Method # GET
    THEN [resp |-> StatusResponse(req, 405,
                       <<[Name |-> ContentType, Value |-> TextPlain],
                         [Name |-> <<"A", "l", "l", "o", "w">>, Value |-> GET]>>,
                       <<"4", "0", "5", " ", "M", "e", "t", "h", "o", "d", " ", "N", "o", "t", " ", "A", "l", "l", "o", "w", "e", "d", ":", " ", "O", "n", "l", "y", " ", "G", "E", "T", " ", "i", "s", " ", "s", "u", "p", "p", "o", "r", "t", "e", "d", " ", "f", "o", "r", " ", "f", "i", "l", "e", " ", "s", "e", "r", "v", "i", "n", "g">>),
          panic |-> FALSE]
    ELSE IF ValidatePath(req) # nil
    THEN [resp |-> InvalidPath(req), panic |-> FALSE]
    ELSE IF fs = nil
    THEN [resp |-> NoResponse, panic |-> TRUE]
    ELSE [resp |->
            CASE outcome = "not exist" -> PlainResponse(req, 404, <<"4", "0", "4", " ", "N", "o", "t", " ", "F", "o", "u", "n", "d">>)
              [] outcome = "stat error" -> PlainResponse(req, 500, <<"5", "0", "0", " ", "I", "n", "t", "e", "r", "n", "a", "l", " ", "S", "e", "r", "v", "e", "r", " ", "E", "r", "r", "o", "r">>)
              [] outcome = "no default file" -> PlainResponse(req, 403, <<"4", "0", "3", " ", "F", "o", "r", "b", "i", "d", "d", "e", "n", ":", " ", "D", "i", "r", "e", "c", "t", "o", "r", "y", " ", "l", "i", "s", "t", "i", "n", "g", " ", "n", "o", "t", " ", "a", "l", "l", "o", "w", "e", "d">>)
              [] outcome = "read error" -> PlainResponse(req, 500, <<"5", "0", "0", " ", "I", "n", "t", "e", "r", "n", "a", "l", " ", "S", "e", "r", "v", "e", "r", " ", "E", "r", "r", "o", "r">>)
              [] outcome = "read" ->
                    StatusResponse(req, 200,
                        <<[Name |-> ContentType, Value |-> <<"a", "p", "p", "l", "i", "c", "a", "t", "i", "o", "n", "/", "o", "c", "t", "e", "t", "-", "s", "t", "r", "e", "a", "m">>],
                          [Name |-> <<"C", "o", "n", "t", "e", "n", "t", "-", "L", "e", "n", "g", "t", "h">>, Value |-> FormatInt(Len(FileContent))]>>,
                        FileContent),
          panic |-> FALSE]

----------------------------------------------------------------------------
(* Requests given to the dispatch: the ones NewRequest builds from a text  *)
(* and Request literals, as the package's tests build both.                *)

RawGetIndex ==
    <<"G", "E", "T", " ", "/", "f", "i", "l", "e", "s", "/", "i", "n", "d", "e", "x",
      ".", "h", "t", "m", "l", " ", "H", "T", "T", "P", "/", "1", ".", "1", "\r", "\n",
      "H", "o", "s", "t", ":", " ", "x", "\r", "\n", "\r", "\n">>
RawGetDirectory ==
    <<"G", "E", "T", " ", "/", "f", "i", "l", "e", "s", "/", " ", "H", "T", "T", "P",
      "/", "1", ".", "1", "\r", "\n", "H", "o", "s", "t", ":", " ", "x", "\r", "\n",
      "\r", "\n">>
RawPostSubmit ==
    <<"P", "O", "S", "T", " ", "/", "s", "u", "b", "m", "i", "t", " ", "H", "T", "T",
      "P", "/", "1", ".", "1", "\r", "\n", "H", "o", "s", "t", ":", " ", "x", "\r",
      "\n", "\r", "\n", "h", "i">>
RawOptionsStar ==
    <<"O", "P", "T", "I", "O", "N", "S", " ", "*", " ", "H", "T", "T", "P", "/", "1",
      ".", "1", "\r", "\n", "H", "o", "s", "t", ":", " ", "x", "\r", "\n", "\r", "\n">>
RawGetStar ==
    <<"G", "E", "T", " ", "*", " ", "H", "T", "T", "P", "/", "1", ".", "1", "\r", "\n",
      "H", "o", "s", "t", ":", " ", "x", "\r", "\n", "\r", "\n">>
RawGetTraversal ==
    <<"G", "E", "T", " ", "/", "f", "i", "l", "e", "s", "/", ".", ".", "/", ".", ".",
      "/", "e", "t", "c", "/", "p", "a", "s", "s", "w", "d", " ", "H", "T", "T", "P",
      "/", "1", ".", "1", "\r", "\n", "H", "o", "s", "t", ":", " ", "x", "\r", "\n",
      "\r", "\n">>
RawGetA ==
    <<"G", "E", "T", " ", "/", "a", " ", "H", "T", "T", "P", "/", "1", ".", "1", "\r",
      "\n", "H", "o", "s", "t", ":", " ", "x", "\r", "\n", "\r", "\n">>
RawGetAQueryDots ==
    <<"G", "E", "T", " ", "/", "a", "?", "x", "=", ".", ".", " ", "H", "T", "T", "P",
      "/", "1", ".", "1", "\r", "\n", "H", "o", "s", "t", ":", " ", "x", "\r", "\n",
      "\r", "\n">>
RawGetAFragmentDot ==
    <<"G", "E", "T", " ", "/", "a", "#", "b", "/", ".", "/", "c", " ", "H", "T", "T",
      "P", "/", "1", ".", "1", "\r", "\n", "H", "o", "s", "t", ":", " ", "x", "\r",
      "\n", "\r", "\n">>
RawGetA2 ==
    <<"G", "E", "T", " ", "/", "a", " ", "H", "T", "T", "P", "/", "2", ".", "0", "\r",
      "\n", "H", "o", "s", "t", ":", " ", "x", "\r", "\n", "\r", "\n">>

\* request texts of TestNewRequestAndResponse and TestValidatePath, and texts whose
\* targets differ in the query or the fragment only
DispatchRaws ==
    {RawGetIndex, RawGetDirectory, RawPostSubmit, RawOptionsStar, RawGetStar,
     RawGetTraversal, RawGetA, RawGetAQueryDots, RawGetAFragmentDot, RawGetA2}

\* the Requests NewRequest returns for them
ParsedRequests ==
    {r.req : r \in {p \in UNION {parseRequest(text) : text \in DispatchRaws} : p.err = nil}}

PathChars == {"/", ".", "a", "*", "\t"}

\* a path with a character above code 126
PathNonASCII == <<"/", "é">>

Paths == Strings(PathChars, MaxPathLen) \cup {PathNonASCII}
Queries == {<<>>, <<"?">>, <<"?", "x", "=", ".", ".">>}
Fragments == {<<>>, <<"#", "/", ".", "/">>}
DispatchMethods == {GET, POST, OPTIONS, FOO}
DispatchProtocols == {HTTP1_1, HTTP2_0}

\* Request literals
LiteralRequests ==
    {[StartLine |-> [Method |-> method,
                     RequestTarget |-> [Path |-> path, Query |-> query, Fragment |-> fragment],
                     Protocol |-> protocol],
      Headers |-> <<>>, Body |-> <<>>] :
        method \in DispatchMethods, path \in Paths, query \in Queries,
        fragment \in Fragments, protocol \in DispatchProtocols}

DispatchRequests == ParsedRequests \cup LiteralRequests

----------------------------------------------------------------------------
(* The dispatch, step by step: rq is the request, dpc the function about   *)
(* to run, trace the calls made so far with the error each returned, out   *)
(* what the outermost call returned (or that it panicked).                 *)

FileServerInstalled == "fileServer"

Called(fn, err) == [fn |-> fn, err |-> err]

\* a test calls req.ValidatePath() on its request
CallValidatePath ==
    /\ dpc = "ready"
    /\ trace' = <<Called("ValidatePath", ValidatePath(rq))>>
    /\ out' = [NoOut EXCEPT !.err = ValidatePath(rq)]
    /\ dpc' = "returned"
    /\ UNCHANGED <<rq, DefaultFileServer, serverVars, procs>>
    /\ UNCHANGED <<extractorVars, requestVars, headerVars, responseVars>>

\* Response(): the switch on the method
CallResponse ==
    /\ dpc = "ready"
    /\ trace' = <<Called("Response", nil)>>
    /\ IF rq.StartLine.Method = GET
       THEN dpc' = "GET" /\ out' = out
       ELSE dpc' = "returned" /\ out' = [NoOut EXCEPT !.resp = NotImplemented(rq)]
    /\ UNCHANGED <<rq, DefaultFileServer, serverVars, procs>>
    /\ UNCHANGED <<extractorVars, requestVars, headerVars, responseVars>>

\* a GET() that calls ServeFile whatever ValidatePath returned
RequestGETUnvalidated(req) ==
    IF RequestTargetString(req.StartLine.RequestTarget) = <<"*">>
    THEN [calls |-> <<Called("GET", nil)>>, resp |-> StarNotAllowed(req),
          next |-> "returned"]
    ELSE [calls |-> <<Called("GET", nil), Called("ValidatePath", ValidatePath(req))>>,
          resp |-> NoResponse, next |-> "ServeFile"]

\* GET() up to its call of DefaultFileServer.ServeFile: the calls it makes, the Response
\* it returns when it returns one itself, and where control goes next
RequestGET(req) ==
    IF RequestTargetString(req.StartLine.RequestTarget) = <<"*">>
    THEN [calls |-> <<Called("GET", nil)>>, resp |-> StarNotAllowed(req),
          next |-> "returned"]
    ELSE IF ValidatePath(req) # nil
    THEN [calls |-> <<Called("GET", nil), Called("ValidatePath", ValidatePath(req))>>,
          resp |-> InvalidPath(req), next |-> "returned"]
    ELSE [calls |-> <<Called("GET", nil), Called("ValidatePath", nil)>>,
          resp |-> NoResponse, next |-> "ServeFile"]

\* rq.GET()
CallGET ==
    /\ dpc = "GET"
    /\ trace' = trace \o RequestGET(rq).calls
    /\ out' = [NoOut EXCEPT !.resp = RequestGET(rq).resp]
    /\ dpc' = RequestGET(rq).next
    /\ UNCHANGED <<rq, DefaultFileServer, serverVars, procs>>
    /\ UNCHANGED <<extractorVars, requestVars, headerVars, responseVars>>

\* DefaultFileServer.ServeFile(rq), whatever the file system shows
CallServeFile ==
    /\ dpc = "ServeFile"
    /\ \E outcome \in FileSystemOutcomes :
          LET served == ServeFile(DefaultFileServer, rq, outcome)
          IN  /\ trace' = Append(trace, Called("ServeFile", nil))
              /\ out' = [err |-> nil, resp |-> served.resp, panic |-> served.panic]
              /\ dpc' = IF served.panic THEN "panicked" ELSE "returned"
    /\ UNCHANGED <<rq, DefaultFileServer, serverVars, procs>>
    /\ UNCHANGED <<extractorVars, requestVars, headerVars, responseVars>>

\* a request, and the default file server installed or still nil (as in the tests)
InitDispatch ==
    /\ rq \in DispatchRequests
    /\ DefaultFileServer \in {nil, FileServerInstalled}
    /\ dpc = "ready"
    /\ trace = <<>>
    /\ out = NoOut
    /\ ServerIdle
    /\ procs = <<>>
    /\ ParsersIdle

NextDispatch ==
    \/ CallValidatePath
    \/ CallResponse
    \/ CallGET
    \/ CallServeFile

SpecDispatch == InitDispatch /\ [][NextDispatch]_vars

----------------------------------------------------------------------------
(* Claims about path validation and the dispatch, checked under            *)
(* SpecDispatch.                                                           *)

\* the string ValidatePath validates
Validated == RequestTargetString(rq.StartLine.RequestTarget)

\* ValidatePath has been called on rq and has returned out.err
ValidatePathReturned ==
    dpc = "returned" /\ trace = <<Called("ValidatePath", out.err)>>

\* Response() has been called on rq and has returned out.resp
ResponseReturned ==
    dpc = "returned" /\ trace # <<>> /\ trace[1].fn = "Response"

\* s has a '/'-separated segment equal to "."
HasDotSegment(s) ==
    \E i \in 0..Len(s) - 1 :
        /\ s[i + 1] = "."
        /\ (i = 0 \/ s[i] = "/")
        /\ (i + 1 = Len(s) \/ s[i + 2] = "/")

\* s has two adjacent dots
HasDotDot(s) == \E i \in 1..Len(s) - 1 : s[i] = "." /\ s[i + 1] = "."

\* the characters of code 32..126
Printable ==
    {CharsFrom32[i] : i \in 1..Len(CharsFrom32)} \cup
    {CharsFrom97[i] : i \in 1..Len(CharsFrom97)}

\* C21: ValidatePath returns nil if and only if the validated string is non-empty,
\* starts with '/', has no "..", has no '/'-separated segment equal to "." and has
\* only characters of code 32..126; and a non-empty string other than "*" that
\* starts with '/' and contains ".." gets ErrDirectoryTraversal.
C21_ValidatePathContract ==
    ValidatePathReturned =>
        /\ (out.err = nil) <=>
               /\ Validated # <<>>
               /\ Validated[1] = "/"
               /\ ~HasDotDot(Validated)
               /\ ~HasDotSegment(Validated)
               /\ \A i \in 1..Len(Validated) : Validated[i] \in Printable
        /\ (Validated # <<>> /\ Validated # <<"*">> /\ Validated[1] = "/"
               /\ HasDotDot(Validated))
             => out.err = ErrDirectoryTraversal

\* a path with ".." was refused as a traversal
C21_TraversalRefused ==
    /\ ValidatePathReturned
    /\ HasDotDot(Validated)
    /\ out.err = ErrDirectoryTraversal

\* C22: two parsed requests with the same method and the same RequestTarget.Path get
\* the same result from ValidatePath, whatever their Query and Fragment.
C22_SamePathSameOutcome ==
    (ValidatePathReturned /\ rq \in ParsedRequests) =>
        \A other \in ParsedRequests :
            (/\ other.StartLine.Method = rq.StartLine.Method
             /\ other.StartLine.RequestTarget.Path = rq.StartLine.RequestTarget.Path)
            => ValidatePath(other) = out.err

\* the status line of the Response returned
Status == out.resp.StartLine

\* ServeFile was called at some point
ServeFileCalled == \E i \in 1..Len(trace) : trace[i].fn = "ServeFile"

\* C23: for every request whose method is not GET, Response() returns 501 "Not
\* Implemented" with the request's protocol and never calls the file server; for a
\* GET request whose target is "*" it returns status 400.
C23_NotImplementedAndStar ==
    ResponseReturned =>
        /\ rq.StartLine.Method # GET =>
               /\ Status = [Protocol |-> rq.StartLine.Protocol, StatusCode |-> 501,
                            StatusText |-> <<"N", "o", "t", " ", "I", "m", "p", "l", "e",
                                            "m", "e", "n", "t", "e", "d">>]
               /\ ~ServeFileCalled
               /\ ~out.panic
        /\ (rq.StartLine.Method = GET /\ rq.StartLine.RequestTarget.Path = <<"*">>) =>
               Status.StatusCode = 400 /\ ~ServeFileCalled

\* an unrecognized method over HTTP/2.0 was answered 501 with that protocol
C23_UnknownMethodNotImplemented ==
    /\ ResponseReturned
    /\ rq.StartLine.Method = FOO
    /\ Status.StatusCode = 501
    /\ Status.Protocol = HTTP2_0

\* C24: ServeFile is called only for a GET request for which ValidatePath has just
\* returned nil; a GET request that fails validation is answered 400 and ServeFile is
\* never called for it.
C24_ServeFileOnlyAfterValidGET ==
    /\ \A i \in 1..Len(trace) :
          trace[i].fn = "ServeFile" =>
              /\ rq.StartLine.Method = GET
              /\ i > 1
              /\ trace[i - 1] = Called("ValidatePath", nil)
    /\ (ResponseReturned /\ rq.StartLine.Method = GET /\ ValidatePath(rq) # nil) =>
          Status.StatusCode = 400 /\ ~ServeFileCalled

\* a GET with ".." was answered 400 after ValidatePath refused it
C24_InvalidGETRefused ==
    /\ ResponseReturned
    /\ rq.StartLine.Method = GET
    /\ \E i \in 1..Len(trace) : trace[i] = Called("ValidatePath", ErrDirectoryTraversal)
    /\ Status.StatusCode = 400
    /\ ~ServeFileCalled

\* C25: for every GET request NewRequest accepted, Response() returns a Response with
\* the request's protocol, whatever the file system shows and whether or not a default
\* file server has been installed.
C25_GETAlwaysAnswered ==
    (/\ rq \in ParsedRequests
     /\ rq.StartLine.Method = GET
     /\ trace # <<>>
     /\ trace[1].fn = "Response"
     /\ dpc \in {"returned", "panicked"})
    => (~out.panic /\ Status.Protocol = rq.StartLine.Protocol)

----------------------------------------------------------------------------
(* Parser calls made concurrently, one per goroutine: procs[i] is the call *)
(* of goroutine i, with its argument, its position in the parser, its      *)
(* local variables and what it returned.                                   *)

\* a target whose two keys a range statement may visit in either order
TwoKeyTarget == <<"/", "a", "?", "x", "=", "1", "&", "y", "=", "2">>

\* a response text whose status code is no number
ResponseBadStatus ==
    HTTP1_1 \o <<" ", "O", "K", " ", "O", "K">> \o CRLF \o CRLF

ConcurrentRequests ==
    {RawRequest(GET, SearchTarget, HTTP1_1, <<HostX>>, <<>>),
     RawRequest(POST, TwoKeyTarget, HTTP2_0, <<HostX>>, <<"h", "i">>),
     RawRequest(GET, <<"/", "a">>, HTTP1_1, <<HostNoColon>>, <<>>),
     RawRequest(GET, <<"/", "?">>, HTTP1_1, <<>>, <<>>),
     GET \o <<" ", "/">>,
     GET \o CRLF \o CRLF}

ConcurrentResponses ==
    {ResponseValid, ResponseNoSeparator, ResponseBadHeader, ResponseBadStatus}

\* the local variables of a call before its first statement
NoLocals ==
    [split |-> <<<<>>, <<>>>>,
     headers_strings |-> <<>>,
     startline_split |-> <<<<>>, <<>>, <<>>>>,
     startline |-> NoRequest.StartLine,
     headers |-> <<>>]

Goroutine(fn, arg) ==
    [fn |-> fn, arg |-> arg, pc |-> "split", local |-> NoLocals, ret |-> "none"]

Goroutines ==
    {Goroutine("parseRequest", text) : text \in ConcurrentRequests} \cup
    {Goroutine("parseResponse", text) : text \in ConcurrentResponses}

\* every goroutine's call shares one frame, the first goroutine's
FrameOfFirst(ps, i) == [arg |-> ps[1].arg, local |-> ps[1].local]

\* the frame of goroutine i's call: its argument and its local variables, which are
\* all that a parser statement reads and writes
Frame(ps, i) == [arg |-> ps[i].arg, local |-> ps[i].local]

\* the error return of goroutine i's call
Fail(ps, i, msg, cause) ==
    [ps EXCEPT ![i].pc = "done",
               ![i].ret = IF ps[i].fn = "parseRequest" THEN Failure(msg, cause)
                          ELSE ResponseFailure(msg, cause)]

\* strings.Trim and the split on the header/body separator, with the length test
SplitMessage(i) ==
    /\ procs[i].pc = "split"
    /\ LET split == Split(Trim(Frame(procs, i).arg, {" "}), HeaderBodySeparator)
           missing == IF procs[i].fn = "parseRequest" THEN missingSeparator(split)
                      ELSE Len(split) # 2
       IN  procs' = IF missing
                    THEN Fail(procs, i,
                              IF procs[i].fn = "parseRequest"
                              THEN "invalid request format: missing separator"
                              ELSE "invalid response format: missing separator", nil)
                    ELSE [procs EXCEPT ![i].pc = "startline", ![i].local.split = split]
    /\ UNCHANGED notProcs

\* the split of the head into lines and of the start line into tokens, with the
\* length tests
SplitStartLine(i) ==
    /\ procs[i].pc = "startline"
    /\ LET startline_headers_split == Split(Frame(procs, i).local.split[1], CRLF)
           startline_split == Split(startline_headers_split[1], <<" ">>)
           invalid == IF procs[i].fn = "parseRequest" THEN invalidStartline(startline_split)
                      ELSE Len(startline_split) < 3
       IN  procs' = IF Len(startline_headers_split) < 1
                    THEN Fail(procs, i,
                              IF procs[i].fn = "parseRequest"
                              THEN "invalid request format: no startline"
                              ELSE "invalid response format: no startline", nil)
                    ELSE IF invalid
                    THEN Fail(procs, i, "invalid startline format", nil)
                    ELSE [procs EXCEPT ![i].pc = "fields",
                                       ![i].local.startline_split = startline_split,
                                       ![i].local.headers_strings =
                                           Tail(startline_headers_split)]
    /\ UNCHANGED notProcs

\* parseRequest: the request-target, its query (the range over the map in any order)
\* and its fragment
ParseRequestLine(i) ==
    /\ procs[i].pc = "fields"
    /\ procs[i].fn = "parseRequest"
    /\ LET startline_split == Frame(procs, i).local.startline_split
           p == parseRequestTarget(startline_split[2])
           q == FindAndParseQuery(startline_split[2])
           f == FindAndParseFragment(startline_split[2])
       IN  \E order \in RangeOrders(q.params) :
              procs' = IF p.err # nil
                       THEN Fail(procs, i, "invalid request target", p.err)
                       ELSE [procs EXCEPT
                               ![i].pc = "headers",
                               ![i].local.startline =
                                  [Method |-> startline_split[1],
                                   RequestTarget |->
                                      [Path |-> p.path,
                                       Query |-> IF q.err = nil
                                                 THEN <<"?">> \o Join(queryParts(q.params, order), <<"&">>)
                                                 ELSE <<>>,
                                       Fragment |-> IF f.err = nil THEN f.str ELSE <<>>],
                                   Protocol |-> startline_split[3]]]
    /\ UNCHANGED notProcs

\* parseResponse: the protocol, the status code and the status text
ParseStatusLine(i) ==
    /\ procs[i].pc = "fields"
    /\ procs[i].fn = "parseResponse"
    /\ LET startline_split == Frame(procs, i).local.startline_split
           status_code == Atoi(startline_split[2])
       IN  procs' = IF status_code.err # nil
                    THEN Fail(procs, i, "invalid status code", status_code.err)
                    ELSE [procs EXCEPT
                            ![i].pc = "headers",
                            ![i].local.startline =
                               [Protocol |-> startline_split[1],
                                StatusCode |-> status_code.n,
                                StatusText |-> status_text(startline_split)]]
    /\ UNCHANGED notProcs

\* the loop over the header lines
ParseHeaders(i) ==
    /\ procs[i].pc = "headers"
    /\ LET hs == parseHeaderLines(Frame(procs, i).local.headers_strings, <<>>)
       IN  procs' = IF hs.err # nil
                    THEN Fail(procs, i, "invalid header", hs.err)
                    ELSE [procs EXCEPT ![i].pc = "return", ![i].local.headers = hs.headers]
    /\ UNCHANGED notProcs

\* the final return statement
Return(i) ==
    /\ procs[i].pc = "return"
    /\ LET local == Frame(procs, i).local
           message == [StartLine |-> local.startline, Headers |-> local.headers,
                       Body |-> local.split[2]]
       IN  procs' = [procs EXCEPT
                       ![i].pc = "done",
                       ![i].ret = IF procs[i].fn = "parseRequest"
                                  THEN [req |-> message, err |-> nil, cause |-> nil]
                                  ELSE [resp |-> message, err |-> nil, cause |-> nil]]
    /\ UNCHANGED notProcs

\* MaxGoroutines goroutines, each about to call a parser on a text of its own
InitConcurrent ==
    /\ procs \in [1..MaxGoroutines -> Goroutines]
    /\ DispatchIdle
    /\ DefaultFileServer = nil
    /\ ServerIdle
    /\ ParsersIdle

\* any goroutine takes its next step
NextConcurrent ==
    \/ \E i \in 1..MaxGoroutines : SplitMessage(i)
    \/ \E i \in 1..MaxGoroutines : SplitStartLine(i)
    \/ \E i \in 1..MaxGoroutines : ParseRequestLine(i)
    \/ \E i \in 1..MaxGoroutines : ParseStatusLine(i)
    \/ \E i \in 1..MaxGoroutines : ParseHeaders(i)
    \/ \E i \in 1..MaxGoroutines : Return(i)

SpecConcurrent == InitConcurrent /\ [][NextConcurrent]_vars

----------------------------------------------------------------------------
(* Claims about concurrent parser calls, checked under SpecConcurrent.     *)

\* what the call of goroutine p may return when it runs alone
Alone(p) ==
    IF p.fn = "parseRequest" THEN parseRequest(p.arg) ELSE {parseResponse(p.arg)}

\* C27: in every interleaving of concurrent parseRequest and parseResponse calls, each
\* call returns a result it returns when run alone.
C27_NoInterference ==
    \A i \in 1..MaxGoroutines : procs[i].pc = "done" => procs[i].ret \in Alone(procs[i])

\* a parseRequest call and a parseResponse call on different texts have both returned
\* a message after their steps interleaved
C27_BothReturned ==
    \E i, j \in 1..MaxGoroutines :
        /\ procs[i].fn = "parseRequest" /\ procs[j].fn = "parseResponse"
        /\ procs[i].pc = "done" /\ procs[j].pc = "done"
        /\ procs[i].ret.err = nil /\ procs[j].ret.err = nil

----------------------------------------------------------------------------
(* The server: runServer installs the default file server and accepts      *)
(* connections, each handled by a goroutine running handleConnection.      *)
(* mainpc is runServer's position; conns[c] is connection c with its       *)
(* handler: what the client sends, what is still unread, the handler's     *)
(* position and locals, what was passed to conn.Write, and counters of the *)
(* calls of NewRequest and Response().                                     *)

\* a GET for a valid path
StreamGet ==
    <<"G", "E", "T", " ", "/", "a", " ", "H", "T", "T", "P", "/", "1", ".", "1", "\r",
      "\n", "\r", "\n">>
\* a POST with a body
StreamPost ==
    <<"P", "O", "S", "T", " ", "/", "a", " ", "H", "T", "T", "P", "/", "2", ".", "0",
      "\r", "\n", "H", "o", "s", "t", ":", " ", "x", "\r", "\n", "\r", "\n", "h", "i">>
\* a GET whose path ValidatePath refuses
StreamTraversal ==
    <<"G", "E", "T", " ", "/", ".", ".", " ", "H", "T", "T", "P", "/", "1", ".", "1",
      "\r", "\n", "\r", "\n">>
\* a request with bare LF line endings
StreamBareLF ==
    <<"G", "E", "T", " ", "/", "a", " ", "H", "T", "T", "P", "/", "1", ".", "1", "\n",
      "H", "o", "s", "t", ":", " ", "x", "\n", "\n">>
\* two bare LF blank lines
StreamBareLFBlank ==
    <<"\n", "\n">>
\* a blank line and nothing after it
StreamBlankFirst ==
    <<"\r", "\n">>
\* a request cut inside a header line
StreamCutHeader ==
    <<"G", "E", "T", " ", "/", "a", " ", "H", "T", "T", "P", "/", "1", ".", "1", "\r",
      "\n", "H", "o", "s", "t">>
\* a request cut inside its start line
StreamCutStartLine ==
    <<"G", "E", "T">>

\* what a client sends before it closes or stalls
Streams ==
    {StreamGet, StreamPost, StreamTraversal, StreamBareLF,
     StreamBareLFBlank, StreamBlankFirst, StreamCutHeader, StreamCutStartLine}

\* what a handler can have read of them
ReadTexts == UNION {{SubSeq(sent, 1, k) : k \in 0..Len(sent)} : sent \in Streams}

\* http.NewRequest, which returns what parseRequest returns, on each of them
NewRequest == [text \in ReadTexts |-> parseRequest(text)]

\* the message handleConnection writes when NewRequest fails
BadRequestMessage ==
    <<"H", "T", "T", "P", "/", "1", ".", "1", " ", "4", "0", "0", " ", "B", "a", "d",
      " ", "R", "e", "q", "u", "e", "s", "t", "\r", "\n", "C", "o", "n", "t", "e", "n",
      "t", "-", "T", "y", "p", "e", ":", " ", "t", "e", "x", "t", "/", "p", "l", "a",
      "i", "n", "\r", "\n", "\r", "\n", "B", "a", "d", " ", "R", "e", "q", "u", "e",
      "s", "t">>

\* runServer starting its accept loop before it assigns DefaultFileServer
runServerAcceptsFirst(pc) ==
    CASE pc = "listen" -> "accept"
      [] pc = "assign" -> "accept"
      [] pc = "accept" -> "accept"

\* runServer's statements in program order: where control goes after the one at pc
runServerAfter(pc) ==
    CASE pc = "listen" -> "assign"
      [] pc = "assign" -> "accept"
      [] pc = "accept" -> "accept"

\* a header loop that ends on "\r\n" alone
EndsHeadersCRLFOnly(ln) == ln = CRLF

\* the test that ends the header loop
EndsHeaders(ln) == ln = CRLF \/ ln = <<"\n">>

\* reader.ReadString('\n') with a whole line unread: the line, delimiter included,
\* and what stays unread
ReadString(stream) ==
    [line |-> Slice(stream, 0, Index(stream, "\n") + 1),
     rest |-> Slice(stream, Index(stream, "\n") + 1, Len(stream))]

\* rq.Response() with DefaultFileServer = fs: the Response, whether the call panicked
\* and whether it read DefaultFileServer
Response(req, fs, outcome) ==
    IF req.StartLine.Method # GET
    THEN [resp |-> NotImplemented(req), panic |-> FALSE, read |-> FALSE]
    ELSE IF RequestGET(req).next = "returned"
    THEN [resp |-> RequestGET(req).resp, panic |-> FALSE, read |-> FALSE]
    ELSE [resp |-> ServeFile(fs, req, outcome).resp,
          panic |-> ServeFile(fs, req, outcome).panic, read |-> TRUE]

\* a connection just accepted, its handler about to read the start line
Accepted(sent) ==
    [sent |-> sent, stream |-> sent, pc |-> "startline", builder |-> <<>>,
     req |-> NoRequest, resp |-> NoResponse, written |-> <<>>, closed |-> FALSE,
     parses |-> 0, responses |-> 0, exit |-> "none", sawNil |-> FALSE]

\* up to net.Listen
Listen ==
    /\ mainpc = "listen"
    /\ mainpc' = runServerAfter(mainpc)
    /\ UNCHANGED <<conns, DefaultFileServer>>
    /\ UNCHANGED notServer

\* http.DefaultFileServer = fileServer
AssignDefaultFileServer ==
    /\ mainpc = "assign"
    /\ DefaultFileServer' = FileServerInstalled
    /\ mainpc' = runServerAfter(mainpc)
    /\ UNCHANGED conns
    /\ UNCHANGED notServer

\* ln.Accept() returns a connection and the loop starts its handler
Accept ==
    /\ mainpc = "accept"
    /\ Len(conns) < MaxConns
    /\ \E sent \in Streams : conns' = Append(conns, Accepted(sent))
    /\ mainpc' = runServerAfter(mainpc)
    /\ UNCHANGED DefaultFileServer
    /\ UNCHANGED notServer

\* the process ends (log.Fatal, a panic): the system closes the connections it held
ProcessExit(cs) == [c \in 1..Len(cs) |-> [cs[c] EXCEPT !.closed = TRUE]]

\* net.Listen or ln.Accept() fails: log.Fatal ends the process
Fatal ==
    /\ mainpc \in {"listen", "accept"}
    /\ mainpc' = "exited"
    /\ conns' = ProcessExit(conns)
    /\ UNCHANGED DefaultFileServer
    /\ UNCHANGED notServer

\* the handler of connection c is running
Running(c) == c \in 1..Len(conns) /\ mainpc # "exited"

\* the start line is read
ReadStartLine(c) ==
    /\ Running(c)
    /\ conns[c].pc = "startline"
    /\ Contains(conns[c].stream, "\n")
    /\ conns' = [conns EXCEPT ![c].builder = ReadString(conns[c].stream).line,
                              ![c].stream = ReadString(conns[c].stream).rest,
                              ![c].pc = "headers"]
    /\ UNCHANGED <<mainpc, DefaultFileServer>>
    /\ UNCHANGED notServer

\* one more line is read, and the loop ends if it is blank
ReadHeaderLine(c) ==
    /\ Running(c)
    /\ conns[c].pc = "headers"
    /\ Contains(conns[c].stream, "\n")
    /\ conns' = [conns EXCEPT
                   ![c].builder = conns[c].builder \o ReadString(conns[c].stream).line,
                   ![c].stream = ReadString(conns[c].stream).rest,
                   ![c].pc = IF EndsHeaders(ReadString(conns[c].stream).line)
                             THEN "parse" ELSE "headers"]
    /\ UNCHANGED <<mainpc, DefaultFileServer>>
    /\ UNCHANGED notServer

\* a read fails (the client closed, the deadline passed): the handler returns
ReadError(c) ==
    /\ Running(c)
    /\ conns[c].pc \in {"startline", "headers"}
    /\ conns' = [conns EXCEPT ![c].pc = "return",
                              ![c].exit = IF conns[c].pc = "startline"
                                          THEN "start line read error"
                                          ELSE "header line read error"]
    /\ UNCHANGED <<mainpc, DefaultFileServer>>
    /\ UNCHANGED notServer

\* a handler that goes on to Response() after it wrote the 400
AfterBadRequestRespond == "respond"

\* where the handler goes after it wrote the 400: it returns
AfterBadRequest == "return"

\* http.NewRequest on what was read; on an error the fixed 400 is written and the
\* handler returns
ParseRequest(c) ==
    /\ Running(c)
    /\ conns[c].pc = "parse"
    /\ \E parsed \in NewRequest[conns[c].builder] :
          conns' = IF parsed.err # nil
                   THEN [conns EXCEPT ![c].parses = @ + 1,
                                      ![c].written = Append(@, BadRequestMessage),
                                      ![c].exit = "parse error",
                                      ![c].pc = AfterBadRequest]
                   ELSE [conns EXCEPT ![c].parses = @ + 1,
                                      ![c].req = parsed.req,
                                      ![c].pc = "respond"]
    /\ UNCHANGED <<mainpc, DefaultFileServer>>
    /\ UNCHANGED notServer

\* resp := req.Response(); a panic ends the process
Respond(c) ==
    /\ Running(c)
    /\ conns[c].pc = "respond"
    /\ \E outcome \in FileSystemOutcomes :
          LET r == Response(conns[c].req, DefaultFileServer, outcome)
              called == [conns EXCEPT
                           ![c].responses = @ + 1,
                           ![c].resp = r.resp,
                           ![c].sawNil = r.read /\ DefaultFileServer = nil,
                           ![c].pc = IF r.panic THEN "panicked" ELSE "write"]
          IN  /\ conns' = IF r.panic THEN ProcessExit(called) ELSE called
              /\ mainpc' = IF r.panic THEN "exited" ELSE mainpc
    /\ UNCHANGED DefaultFileServer
    /\ UNCHANGED notServer

\* conn.Write(resp.String()), which may fail, and the access log
WriteResponse(c) ==
    /\ Running(c)
    /\ conns[c].pc = "write"
    /\ \E failed \in BOOLEAN :
          conns' = [conns EXCEPT
                      ![c].written = Append(@, ResponseString(conns[c].resp)),
                      ![c].exit = IF failed THEN "write error" ELSE "success",
                      ![c].pc = "return"]
    /\ UNCHANGED <<mainpc, DefaultFileServer>>
    /\ UNCHANGED notServer

\* the deferred conn.Close()
Close(c) ==
    /\ Running(c)
    /\ conns[c].pc = "return"
    /\ conns' = [conns EXCEPT ![c].closed = TRUE, ![c].pc = "done"]
    /\ UNCHANGED <<mainpc, DefaultFileServer>>
    /\ UNCHANGED notServer

\* a step of the handler of connection c
handleConnection(c) ==
    \/ ReadStartLine(c)
    \/ ReadHeaderLine(c)
    \/ ReadError(c)
    \/ ParseRequest(c)
    \/ Respond(c)
    \/ WriteResponse(c)
    \/ Close(c)

InitServer ==
    /\ mainpc = "listen"
    /\ conns = <<>>
    /\ DefaultFileServer = nil
    /\ DispatchIdle
    /\ procs = <<>>
    /\ ParsersIdle

NextServer ==
    \/ Listen
    \/ AssignDefaultFileServer
    \/ Accept
    \/ Fatal
    \/ \E c \in 1..MaxConns : ReadStartLine(c)
    \/ \E c \in 1..MaxConns : ReadHeaderLine(c)
    \/ \E c \in 1..MaxConns : ReadError(c)
    \/ \E c \in 1..MaxConns : ParseRequest(c)
    \/ \E c \in 1..MaxConns : Respond(c)
    \/ \E c \in 1..MaxConns : WriteResponse(c)
    \/ \E c \in 1..MaxConns : Close(c)

SpecServer == InitServer /\ [][NextServer]_vars

\* the scheduler lets every handler goroutine that can take a step take one
SpecServerFair ==
    SpecServer /\ \A c \in 1..MaxConns : WF_vars(handleConnection(c))

----------------------------------------------------------------------------
(* Claims about the server, checked under SpecServer and SpecServerFair.   *)

\* text is a request with bare LF line endings: no CRLF, and a blank line after a line
BareLF(text) == IndexStr(text, CRLF) = -1 /\ IndexStr(text, <<"\n", "\n">>) # -1

\* text up to and including its first blank line after a line, LF-ended
ThroughBlankLine(text) == Slice(text, 0, IndexStr(text, <<"\n", "\n">>) + 2)

\* no read of the handler failed
ReadsSucceeded(conn) ==
    conn.exit \notin {"start line read error", "header line read error"}

\* C28: a request delivered with bare LF line endings is read up to its blank line
\* and no further, NewRequest rejects it, and the handler writes the fixed 400 message
\* and nothing else and never calls Response().
C28_BareLFRejected ==
    \A c \in 1..Len(conns) :
        BareLF(conns[c].sent) =>
            /\ conns[c].pc \in {"startline", "headers"} =>
                   Len(conns[c].builder) < Len(ThroughBlankLine(conns[c].sent))
            /\ conns[c].pc = "parse" =>
                   conns[c].builder = ThroughBlankLine(conns[c].sent)
            /\ conns[c].pc \notin {"respond", "write", "panicked"}
            /\ conns[c].responses = 0
            /\ conns[c].written \in {<<>>, <<BadRequestMessage>>}
            /\ (conns[c].pc \in {"return", "done"} /\ ReadsSucceeded(conns[c])) =>
                   /\ conns[c].exit = "parse error"
                   /\ conns[c].parses = 1
                   /\ conns[c].written = <<BadRequestMessage>>

\* the handler of a bare LF request has written the 400 message and returned
C28_BareLFAnswered400 ==
    \E c \in 1..Len(conns) :
        /\ conns[c].sent = StreamBareLF
        /\ conns[c].pc = "done"
        /\ conns[c].written = <<BadRequestMessage>>
        /\ conns[c].responses = 0

\* connection c has been accepted, and it has been closed
IsAccepted(c) == c <= Len(conns)
IsClosed(c) == c <= Len(conns) /\ conns[c].closed

\* the handler read a blank line, as its first line or later
ReadBlankLine(builder) ==
    \/ HasPrefix(builder, <<"\n">>)
    \/ HasPrefix(builder, CRLF)
    \/ IndexStr(builder, <<"\n", "\n">>) # -1
    \/ IndexStr(builder, <<"\n">> \o CRLF) # -1

\* the handler read a blank line after its first line
ReadBlankLineAfterFirst(builder) ==
    \/ IndexStr(builder, <<"\n", "\n">>) # -1
    \/ IndexStr(builder, <<"\n">> \o CRLF) # -1

C30_AssignedBeforeHandlers ==
    /\ [](conns # <<>> => DefaultFileServer = FileServerInstalled)
    /\ [](\A c \in 1..Len(conns) : ~conns[c].sawNil)
    /\ [][DefaultFileServer' # DefaultFileServer =>
             (mainpc = "assign" /\ DefaultFileServer = nil /\ conns = <<>>)]_vars

\* a handler's GET() has read DefaultFileServer and served a file through it
C30_HandlerServedFile ==
    \E c \in 1..Len(conns) :
        /\ conns[c].req.StartLine.Method = GET
        /\ conns[c].responses = 1
        /\ conns[c].resp.StartLine.StatusCode = 200
        /\ ~conns[c].sawNil

====
